---------------------------- MODULE Spec2Model ----------------------------
(***************************************************************************)
(* TaskFlow.Ai backend: the text validator / normalizer / classifier and   *)
(* the dependency-graph builder, modelled from the Python sources under    *)
(* src/backend/app.                                                        *)
(*                                                                         *)
(* A Python str is modelled as a sequence of one-character strings, so     *)
(* that regular expressions, substring tests, slicing and lower() are      *)
(* computed character by character as the code computes them.              *)
(***************************************************************************)
EXTENDS Integers, Sequences, FiniteSets, TLC

VARIABLES
    db,        \* the rows of the tasks table, the list build_graph is given
    response,  \* the response of the last request handler that ran
    text,      \* the argument of the last call of a pure text function
    result     \* what that call returned

vars == <<db, response, text, result>>

-----------------------------------------------------------------------------
(* Characters and the fragments of Python's re / str semantics in use.     *)

None == "None"

LowerLetters == <<"a","b","c","d","e","f","g","h","i","j","k","l","m","n","o","p","q","r","s","t","u","v","w","x","y","z">>
UpperLetters == <<"A","B","C","D","E","F","G","H","I","J","K","L","M","N","O","P","Q","R","S","T","U","V","W","X","Y","Z">>
Digits == {"0", "1", "2", "3", "4", "5", "6", "7", "8", "9"}

Range(s) == {s[i] : i \in DOMAIN s}

LowerSet == Range(LowerLetters)
UpperSet == Range(UpperLetters)

IsUpper(c) == c \in UpperSet
IsAlpha(c) == c \in LowerSet \/ IsUpper(c)
IsDigit(c) == c \in Digits
\* \s of re (str patterns): whitespace
IsSpace(c) == c \in {" ", "\t", "\n", "\r", "\f"}
\* \w of re: letters, digits and the underscore
WordChars == LowerSet \cup UpperSet \cup Digits \cup {"_"}
IsWordChar(c) == c \in WordChars

LowerChar(c) ==
    IF IsUpper(c)
    THEN LowerLetters[CHOOSE i \in DOMAIN UpperLetters : UpperLetters[i] = c]
    ELSE c

\* str.lower()
RECURSIVE lower(_)
lower(s) == IF s = <<>> THEN <<>> ELSE <<LowerChar(Head(s))>> \o lower(Tail(s))

\* the pattern literal w matches s at position i
MatchAt(s, i, w) ==
    /\ i >= 1
    /\ i + Len(w) - 1 <= Len(s)
    /\ \A k \in 1..Len(w) : s[i + k - 1] = w[k]

\* w in s
Contains(s, w) == \E i \in 1..(Len(s) - Len(w) + 1) : MatchAt(s, i, w)

ContainsAny(s, ws) == \E w \in ws : Contains(s, w)

\* str.strip(): without the leading and the trailing whitespace
RECURSIVE lstrip_class(_, _)
lstrip_class(s, class) ==
    IF s # <<>> /\ Head(s) \in class THEN lstrip_class(Tail(s), class) ELSE s

RECURSIVE rstrip_class(_, _)
rstrip_class(s, class) ==
    IF s # <<>> /\ s[Len(s)] \in class
    THEN rstrip_class(SubSeq(s, 1, Len(s) - 1), class)
    ELSE s

Whitespace == {" ", "\t", "\n", "\r", "\f"}

strip(s) == rstrip_class(lstrip_class(s, Whitespace), Whitespace)

\* every character of s from position a to position b is in class
AllIn(s, a, b, class) == \A k \in a..b : s[k] \in class

\* characters outside ASCII that the patterns of ai_service.py and
\* task_classifier.py name, written as code points: the source file of
\* ai_service.py holds U+00E2 U+20AC U+00A2 where a bullet was meant and
\* U+00E2 U+2020 U+2019 where an arrow was meant
BulletBytes == {"U+00E2", "U+20AC", "U+00A2"}
ArrowBytes == {"U+00E2", "U+2020", "U+2019"}
Bullet == "U+2022"

\* str(n) for the integer ids of tasks
str(n) == ToString(n)

-----------------------------------------------------------------------------
(* models/task.py: the TaskCategory enumeration.                           *)

DEPLOY == "deploy"
MESSAGE == "message"
EMAIL == "email"
REMINDER == "reminder"
JIRA_UPDATE == "jira_update"
OTHER_CATEGORY == "other"  \* TaskCategory.OTHER (OTHER is a reserved word)

TaskCategory == {DEPLOY, MESSAGE, EMAIL, REMINDER, JIRA_UPDATE, OTHER_CATEGORY}

-----------------------------------------------------------------------------
(* services/graph_service.py                                               *)

\* One entry of DEPENDENCY_PATTERNS.  Every pattern of the table has the
\* shape  head \s+ [.*] (alt1|alt2|...)  ; "dotstar" says whether the .* is
\* there, and an entry without a group has the empty alternative only.
Pat(head, dotstar, alts, category) ==
    [head |-> head, dotstar |-> dotstar, alts |-> alts, category |-> category]

DEPENDENCY_PATTERNS == <<
    Pat(<<"a","f","t","e","r">>, FALSE, {<<"d","e","p","l","o","y">>, <<"r","e","l","e","a","s","e">>, <<"s","h","i","p">>}, DEPLOY),
    Pat(<<"a","f","t","e","r">>, FALSE, {<<"m","e","s","s","a","g","e">>, <<"p","i","n","g">>, <<"d","m">>, <<"c","o","n","t","a","c","t">>}, MESSAGE),
    Pat(<<"a","f","t","e","r">>, FALSE, {<<"e","m","a","i","l">>, <<"m","a","i","l">>}, EMAIL),
    Pat(<<"a","f","t","e","r">>, FALSE, {<<"j","i","r","a">>, <<"t","i","c","k","e","t">>, <<"i","s","s","u","e">>}, JIRA_UPDATE),
    Pat(<<"o","n","c","e">>, TRUE, {<<"d","e","p","l","o","y">>, <<"r","e","l","e","a","s","e">>, <<"s","h","i","p">>}, DEPLOY),
    Pat(<<"w","h","e","n">>, TRUE, {<<"d","e","p","l","o","y">>, <<"r","e","l","e","a","s","e">>, <<"d","o","n","e">>}, DEPLOY),
    Pat(<<"d","e","p","e","n","d","s">>, FALSE, {<<"o","n">>}, None),
    Pat(<<"b","l","o","c","k","e","d">>, FALSE, {<<"b","y">>}, None),
    Pat(<<"w","a","i","t","i","n","g">>, FALSE, {<<"f","o","r">>}, None),
    Pat(<<"a","f","t","e","r">>, FALSE, {<<"c","o","m","p","l","e","t","i","n","g">>}, None),
    Pat(<<"t","h","e","n">>, FALSE, {<<>>}, None) >>

\* re.search(pattern, s) for a pattern of the table: the head at some i,
\* then a run of whitespace ending at e, then (after .*, which does not
\* cross a newline) one of the alternatives at j.
re_search(pat, s) ==
    \E i \in 1..Len(s) :
        /\ MatchAt(s, i, pat.head)
        /\ \E e \in (i + Len(pat.head))..Len(s) :
            /\ \A k \in (i + Len(pat.head))..e : IsSpace(s[k])
            /\ \E j \in (e + 1)..(Len(s) + 1) :
                /\ pat.dotstar \/ j = e + 1
                /\ \A k \in (e + 1)..(j - 1) : s[k] # "\n"
                /\ \E a \in pat.alts : MatchAt(s, j, a)

\* set(re.findall(r'\b\w{4,}\b', s)): the maximal runs of word characters
\* that are at least four characters long
MinWordLen == 4

\* the index of the last character of the run of word characters from a on
RECURSIVE WordEnd(_, _)
WordEnd(s, a) ==
    IF a < Len(s) /\ IsWordChar(s[a + 1]) THEN WordEnd(s, a + 1) ELSE a

findall_words(s) ==
    { SubSeq(s, a, WordEnd(s, a)) : a \in
        { i \in 1..Len(s) :
            /\ IsWordChar(s[i])
            /\ (i = 1 \/ ~IsWordChar(s[i - 1]))
            /\ WordEnd(s, i) - i + 1 >= MinWordLen } }

StopWords ==
    {<<"t","h","i","s">>, <<"t","h","a","t">>, <<"w","i","t","h">>, <<"f","r","o","m">>, <<"h","a","v","e">>, <<"b","e","e","n">>, <<"w","i","l","l">>,
     <<"w","o","u","l","d">>, <<"c","o","u","l","d">>, <<"s","h","o","u","l","d">>}

WaitKeywords ==
    {<<"a","f","t","e","r">>, <<"o","n","c","e">>, <<"w","h","e","n">>, <<"d","e","p","e","n","d","s">>, <<"b","l","o","c","k","e","d">>, <<"w","a","i","t","i","n","g">>}

MinCommonWords == 2

GraphEdge(source, target, label) ==
    [source |-> source, target |-> target, label |-> label]

\* KeywordEdges without the any(...) test of line 127
RECURSIVE KeywordEdges_any_text(_, _, _, _, _)
KeywordEdges_any_text(task, all_tasks, text_lower, words, k) ==
    IF k > Len(all_tasks) THEN <<>>
    ELSE
        LET other_task == all_tasks[k]
            other_words == findall_words(lower(other_task.clean_text))
            common_words == (words \cap other_words) \ StopWords
        IN  (IF /\ other_task.id # task.id
                /\ Cardinality(common_words) >= MinCommonWords
             THEN << GraphEdge(str(other_task.id), str(task.id), "related") >>
             ELSE <<>>)
            \o KeywordEdges_any_text(task, all_tasks, text_lower, words, k + 1)

\* lines 114-132: the loop over all_tasks, from task number k on
RECURSIVE KeywordEdges(_, _, _, _, _)
KeywordEdges(task, all_tasks, text_lower, words, k) ==
    IF k > Len(all_tasks) THEN <<>>
    ELSE
        LET other_task == all_tasks[k]
            other_words == findall_words(lower(other_task.clean_text))
            common_words == (words \cap other_words) \ StopWords
        IN  (IF /\ other_task.id # task.id
                /\ Cardinality(common_words) >= MinCommonWords
                /\ ContainsAny(text_lower, WaitKeywords)
             THEN << GraphEdge(str(other_task.id), str(task.id), "related") >>
             ELSE <<>>)
            \o KeywordEdges(task, all_tasks, text_lower, words, k + 1)

\* _find_keyword_dependencies: the edges it appends, in order
_find_keyword_dependencies(task, all_tasks, text_lower) ==
    KeywordEdges(task, all_tasks, text_lower, findall_words(text_lower), 1)

\* tasks_by_category[category], in task order; <<>> when the key is absent
tasks_by_category(tasks, category) ==
    SelectSeq(tasks, LAMBDA t : t.category = category)

\* the "blocks" edges one category pattern appends for a task
RECURSIVE BlocksEdges(_, _, _)
BlocksEdges(task, dep_tasks, k) ==
    IF k > Len(dep_tasks) THEN <<>>
    ELSE (IF dep_tasks[k].id # task.id
          THEN << GraphEdge(str(dep_tasks[k].id), str(task.id), "blocks") >>
          ELSE <<>>)
         \o BlocksEdges(task, dep_tasks, k + 1)

\* PatternActs without the test of line 77: the entry acts on every task
PatternActs_unconditional(task, tasks, text_lower, pat) ==
    IF pat.category # None /\ tasks_by_category(tasks, pat.category) # <<>>
    THEN BlocksEdges(task, tasks_by_category(tasks, pat.category), 1)
    ELSE IF pat.category = None
         THEN _find_keyword_dependencies(task, tasks, text_lower)
         ELSE <<>>

\* lines 77-89: what one entry of DEPENDENCY_PATTERNS appends for a task
PatternActs(task, tasks, text_lower, pat) ==
    IF re_search(pat, text_lower)
    THEN IF pat.category # None /\ tasks_by_category(tasks, pat.category) # <<>>
         THEN BlocksEdges(task, tasks_by_category(tasks, pat.category), 1)
         ELSE IF pat.category = None
              THEN _find_keyword_dependencies(task, tasks, text_lower)
              ELSE <<>>
    ELSE <<>>

\* line 76: the loop over DEPENDENCY_PATTERNS for one task, from entry p on.
\* The loop has no break: every matching entry acts.
RECURSIVE PatternEdges(_, _, _, _)
PatternEdges(task, tasks, text_lower, p) ==
    IF p > Len(DEPENDENCY_PATTERNS) THEN <<>>
    ELSE PatternActs(task, tasks, text_lower, DEPENDENCY_PATTERNS[p])
         \o PatternEdges(task, tasks, text_lower, p + 1)

\* lines 54-60: the explicit edges, in task order then depends_on order
RECURSIVE ExplicitEdges(_, _)
ExplicitEdges(tasks, k) ==
    IF k > Len(tasks) THEN <<>>
    ELSE [d \in 1..Len(tasks[k].depends_on) |->
              GraphEdge(str(tasks[k].depends_on[d]), str(tasks[k].id), "depends")]
         \o ExplicitEdges(tasks, k + 1)

\* HeuristicEdges without the skip of lines 71-72
RECURSIVE HeuristicEdges_noskip(_, _)
HeuristicEdges_noskip(tasks, k) ==
    IF k > Len(tasks) THEN <<>>
    ELSE PatternEdges(tasks[k], tasks, lower(tasks[k].clean_text), 1)
         \o HeuristicEdges_noskip(tasks, k + 1)

\* HeuristicEdges where a task is compared with the tasks up to its own
\* place in the list only
RECURSIVE HeuristicEdges_earlier_tasks(_, _)
HeuristicEdges_earlier_tasks(tasks, k) ==
    IF k > Len(tasks) THEN <<>>
    ELSE (IF tasks[k].depends_on # <<>>
          THEN <<>>
          ELSE PatternEdges(tasks[k], SubSeq(tasks, 1, k),
                            lower(tasks[k].clean_text), 1))
         \o HeuristicEdges_earlier_tasks(tasks, k + 1)

\* lines 70-89: the heuristic edges, in task order
RECURSIVE HeuristicEdges(_, _)
HeuristicEdges(tasks, k) ==
    IF k > Len(tasks) THEN <<>>
    ELSE (IF tasks[k].depends_on # <<>>
          THEN <<>>
          ELSE PatternEdges(tasks[k], tasks, lower(tasks[k].clean_text), 1))
         \o HeuristicEdges(tasks, k + 1)

\* unique_edges without the test of line 96: every edge is kept
unique_edges_keep_all(edges, seen_edges) == edges

\* unique_edges with the last edge of every (source, target) pair kept
\* instead of the first
RECURSIVE unique_edges_keep_last(_, _)
unique_edges_keep_last(edges, seen_edges) ==
    IF edges = <<>> THEN <<>>
    ELSE LET edge == Head(edges)
             rest == Tail(edges)
         IN  IF \E k \in DOMAIN rest : /\ rest[k].source = edge.source
                                        /\ rest[k].target = edge.target
             THEN unique_edges_keep_last(rest, seen_edges)
             ELSE <<edge>> \o unique_edges_keep_last(rest, seen_edges)

\* lines 91-98: keep the first edge of every (source, target) pair
RECURSIVE unique_edges(_, _)
unique_edges(edges, seen_edges) ==
    IF edges = <<>> THEN <<>>
    ELSE LET edge == Head(edges)
             edge_key == <<edge.source, edge.target>>
         IN  IF edge_key \notin seen_edges
             THEN <<edge>> \o unique_edges(Tail(edges), seen_edges \cup {edge_key})
             ELSE unique_edges(Tail(edges), seen_edges)

LabelMax == 50

\* lines 31-51: the node of one task, with the fields that are computed from
\* the columns a row of the model carries (time, raw_text, original_message
\* and was_improved are copies of columns no edge depends on)
GraphNode(task) ==
    [id |-> str(task.id),
     label |-> IF Len(task.clean_text) > LabelMax
               THEN SubSeq(task.clean_text, 1, LabelMax) \o <<".",".",".">>
               ELSE task.clean_text,
     category |-> task.category,
     dependsOn |-> [d \in 1..Len(task.depends_on) |-> str(task.depends_on[d])]]

\* schemas/graph.py line 9: the validation of GraphNode accepts a category
\* of the enumeration, and raises for None
GraphNode_accepts(task) == task.category \in TaskCategory

\* lines 31-51: the construction of some node raises
build_graph_raises(tasks) ==
    \E k \in 1..Len(tasks) : ~GraphNode_accepts(tasks[k])

\* the graph build_graph returns when it returns
build_graph(tasks) ==
    [nodes |-> [k \in 1..Len(tasks) |-> GraphNode(tasks[k])],
     edges |-> unique_edges(ExplicitEdges(tasks, 1) \o HeuristicEdges(tasks, 1), {})]

-----------------------------------------------------------------------------
(* services/ai_service.py: TaskValidator.clean_task_text, and              *)
(* services/task_classifier.py: TaskClassifier.clean_text.                 *)

\* the class [\s\-...\*...\)\(\[\]] of lines 191-192
Decoration == Whitespace \cup {"-", "*", ")", "(", "[", "]"} \cup BulletBytes \cup ArrowBytes

\* re.sub(r'\s+', ' ', s): every run of whitespace becomes one space
RECURSIVE collapse_whitespace(_)
collapse_whitespace(s) ==
    IF s = <<>> THEN <<>>
    ELSE IF IsSpace(Head(s))
         THEN <<" ">> \o collapse_whitespace(lstrip_class(s, Whitespace))
         ELSE <<Head(s)>> \o collapse_whitespace(Tail(s))

\* re.sub(r'^\d+[\.\)\]]\s*', '', s): a leading number with its period or
\* bracket and the whitespace after it
strip_list_number(s) ==
    LET rest == lstrip_class(s, Digits)
    IN  IF rest # s /\ rest # <<>> /\ Head(rest) \in {".", ")", "]"}
        THEN lstrip_class(Tail(rest), Whitespace)
        ELSE s

clean_task_text(text_in) ==
    IF text_in = <<>> THEN <<>>
    ELSE LET t1 == lstrip_class(text_in, Decoration)
             t2 == rstrip_class(t1, Decoration)
             t3 == collapse_whitespace(t2)
             t4 == strip_list_number(t3)
         IN  strip(t4)

\* TaskClassifier.clean_text
ListPrefix == {"-", "*", Bullet, "."} \cup Digits

clean_text(raw_text) ==
    LET t1 == strip(raw_text)
        t2 == lstrip_class(t1, ListPrefix)
        t3 == IF t2 # t1 THEN lstrip_class(t2, Whitespace) ELSE t1
    IN  strip(t3)

-----------------------------------------------------------------------------
(* services/ai_service.py: TaskValidator.  The patterns are matched as the  *)
(* re module matches them; case folding (re.IGNORECASE, str.lower) is that  *)
(* of the ASCII letters.                                                    *)

MIN_TASK_LENGTH == 15
MIN_WORD_COUNT == 3

\* \b at position p of s, i.e. between s[p - 1] and s[p]
WordBoundary(s, p) ==
    LET before == p > 1 /\ p - 1 <= Len(s) /\ IsWordChar(s[p - 1])
        after == p >= 1 /\ p <= Len(s) /\ IsWordChar(s[p])
    IN  before # after

\* re.search(r'\bw\b', s) for a literal w
ContainsWord(s, w) ==
    \E i \in 1..(Len(s) - Len(w) + 1) :
        MatchAt(s, i, w) /\ WordBoundary(s, i) /\ WordBoundary(s, i + Len(w))

\* ^(w1|w2|...)[class]*$ : one of the words, then characters of class only
WordsThenClass(s, words, class) ==
    \E w \in words : MatchAt(s, 1, w) /\ AllIn(s, Len(w) + 1, Len(s), class)

\* ^[class]+rest : the length of the leading run of characters of class
RECURSIVE RunLength(_, _, _)
RunLength(s, a, class) ==
    IF a <= Len(s) /\ s[a] \in class THEN 1 + RunLength(s, a + 1, class) ELSE 0

PunctuationClass ==
    Whitespace \cup {")", "(", ".", ",", ";", ":", "!", "?", "-", "*"}
        \cup BulletBytes \cup ArrowBytes

BulletClass == {"-", "*"} \cup BulletBytes \cup ArrowBytes

Acknowledgements == {
    <<"o","k">>, <<"o","k","a","y">>, <<"y","e","s">>, <<"n","o">>, <<"t","h","a","n","k","s">>, <<"t","h","x">>, <<"t","y">>, <<"s","u","r","e">>,
    <<"n","p">>, <<"k">>, <<"l","o","l">>, <<"h","a","h","a">>, <<"e","t","c">>, <<"d","o","n","e">>, <<"c","o","o","l">>, <<"n","i","c","e">>,
    <<"g","r","e","a","t">>, <<"h","i">>, <<"h","e","y">>, <<"h","e","l","l","o">>, <<"b","y","e">>, <<"g","o","o","d","b","y","e">> }

MediaExtensions == {
    <<"m","p","4">>, <<"m","p","3">>, <<"p","d","f">>, <<"d","o","c">>, <<"d","o","c","x">>, <<"x","l","s">>, <<"x","l","s","x">>, <<"p","p","t">>,
    <<"p","p","t","x">>, <<"p","n","g">>, <<"j","p","g">>, <<"j","p","e","g">>, <<"g","i","f">>, <<"z","i","p">>, <<"r","a","r">> }

FileExtensions == MediaExtensions \cup {
    <<"t","x","t">>, <<"c","s","v">>, <<"j","s","o","n">>, <<"x","m","l">>, <<"h","t","m","l">>, <<"c","s","s">>, <<"j","s">>, <<"t","s">>,
    <<"p","y">>, <<"j","a","v","a">>, <<"c","p","p">>, <<"c">>, <<"h">>, <<"m","d">>, <<"y","m","l">>, <<"y","a","m","l">> }

\* s ends with a period and one of the extensions, after a prefix of at
\* least `least' characters that are all in class
EndsWithExtension(s, extensions, class, least) ==
    \E x \in extensions :
        /\ Len(s) >= Len(x) + 1 + least
        /\ MatchAt(s, Len(s) - Len(x) + 1, x)
        /\ s[Len(s) - Len(x)] = "."
        /\ AllIn(s, 1, Len(s) - Len(x) - 1, class)

\* the alternatives of pattern 17; only the first is anchored at the start,
\* which re.match does for all of them, and only the last at the end
Emoticons == {
    <<":",")">>, <<":","(">>, <<";",")">>, <<":","d">>, <<":","p">>, <<"<","3">>,
    <<"U+011F", "U+0178", "U+2018">>, <<"U+00E2", "U+0153", "U+2026">>,
    <<"U+00E2", "U+0152">>, <<"U+011F", "U+0178", "U+2030">> }

LastEmoticon == <<"U+011F", "U+0178", "U+2019", "U+00AF">>

\* https?://\S+ over the whole of s
UrlShape(s) ==
    \E scheme \in {<<"h","t","t","p",":","/","/">>, <<"h","t","t","p","s",":","/","/">>} :
        /\ MatchAt(s, 1, scheme)
        /\ Len(s) > Len(scheme)
        /\ \A k \in (Len(scheme) + 1)..Len(s) : ~IsSpace(s[k])

\* ^[A-Z]+-\d+\s*$ over s; letters is [A-Z], or the letters of both cases
\* when the pattern is matched with re.IGNORECASE
TicketShape(s, letters) ==
    LET n == RunLength(s, 1, letters)
        d == RunLength(s, n + 2, Digits)
    IN  /\ n >= 1
        /\ n + 1 <= Len(s) /\ s[n + 1] = "-"
        /\ d >= 1
        /\ AllIn(s, n + 2 + d, Len(s), Whitespace)

\* the entries of NOISE_PATTERNS that re.match(pattern, s, re.IGNORECASE)
\* accepts, by their position in the list; s is the stripped text
NoiseMatches(s) ==
    LET l == lower(s)
        NonSpace == Range(s) \ Whitespace
    IN  {p \in 1..19 :
          CASE p = 1 -> s # <<>> /\ AllIn(s, 1, Len(s), PunctuationClass)
            [] p = 2 -> WordsThenClass(l, Acknowledgements,
                                       {".", "!", "?"} \cup Whitespace)
            [] p = 3 -> LET n == RunLength(s, 1, Digits)
                        IN  n >= 1 /\ AllIn(s, n + 1, Len(s),
                                            {".", ")"} \cup Whitespace)
            [] p = 4 -> TicketShape(s, LowerSet \cup UpperSet)
            [] p = 5 -> AllIn(s, 1, Len(s), Whitespace)
            [] p = 6 -> LET n == RunLength(s, 1, BulletClass)
                        IN  n >= 1 /\ AllIn(s, n + 1, Len(s), Whitespace)
            [] p = 7 -> UrlShape(l)
            [] p = 8 -> WordsThenClass(l, {<<"m","e","e","t","i","n","g"," ","l","i","n","k">>}, Whitespace)
            [] p = 9 -> WordsThenClass(l, {<<"l","i","n","k">>}, Whitespace)
            [] p = 10 -> EndsWithExtension(l, MediaExtensions, NonSpace, 1)
            [] p = 11 -> EndsWithExtension(l, MediaExtensions,
                                           WordChars \cup {"+"}, 1)
            [] p = 12 -> /\ Len(s) >= 2
                         /\ s[1] = "[" /\ s[Len(s)] = "]"
                         /\ AllIn(s, 2, Len(s) - 1, Whitespace)
            [] p = 13 -> WordsThenClass(l, {<<"c","c">>, <<"c","c",":">>}, Whitespace)
            [] p = 14 -> WordsThenClass(l, {<<"f","y","i">>}, Whitespace)
            [] p = 15 -> WordsThenClass(l, {<<"r","e",":">>}, Whitespace)
            [] p = 16 -> WordsThenClass(l, {<<"f","w",":">>}, Whitespace)
            [] p = 17 -> \/ \E e \in Emoticons : MatchAt(l, 1, e)
                         \/ l = LastEmoticon
            [] p = 18 -> /\ Len(s) \in 1..5
                         /\ AllIn(s, 1, Len(s), WordChars \cup Whitespace)
            [] p = 19 -> /\ Len(s) >= 2
                         /\ AllIn(s, 1, Len(s), LowerSet \cup UpperSet) }

\* ^(w1|w2|...)\s+(v1|v2|...)tail : a first word, whitespace, a second word
\* and, when closed, nothing after it but at most one of the optional
\* characters
TwoWords(s, firsts, seconds, optional, closed) ==
    \E w \in firsts : \E v \in seconds :
        /\ MatchAt(s, 1, w)
        /\ LET n == RunLength(s, Len(w) + 1, Whitespace)
               e == Len(w) + n + Len(v)
           IN  /\ n >= 1
               /\ MatchAt(s, Len(w) + n + 1, v)
               /\ closed =>
                    \/ e = Len(s)
                    \/ e + 1 = Len(s) /\ s[Len(s)] \in optional

\* the entries of NON_ACTIONABLE_PATTERNS that re.match accepts on the
\* lower-cased stripped text l
NonActionableMatches(l) ==
    {p \in 1..5 :
      CASE p = 1 ->
             \E w \in {<<"h","e","r","e"," ","i","s">>, <<"h","e","r","e","'","s">>, <<"t","h","i","s"," ","i","s">>, <<"a","t","t","a","c","h","e","d"," ","i","s">>,
                       <<"s","e","e"," ","b","e","l","o","w">>, <<"s","e","e"," ","a","b","o","v","e">>, <<"f","y","i">>,
                       <<"f","o","r"," ","y","o","u","r"," ","i","n","f","o","r","m","a","t","i","o","n">>} :
                 MatchAt(l, 1, w) /\ WordBoundary(l, Len(w) + 1)
        [] p = 2 ->
             TwoWords(l, {<<"j","u","s","t">>, <<"o","n","l","y">>, <<"s","i","m","p","l","y">>},
                      {<<"w","a","n","t","e","d"," ","t","o">>, <<"l","e","t","t","i","n","g"," ","y","o","u"," ","k","n","o","w">>, <<"i","n","f","o","r","m","i","n","g">>},
                      {}, FALSE)
        [] p = 3 ->
             TwoWords(l, {<<"g","o","o","d">>, <<"g","r","e","a","t">>, <<"n","i","c","e">>, <<"a","w","e","s","o","m","e">>,
                          <<"e","x","c","e","l","l","e","n","t">>, <<"p","e","r","f","e","c","t">>, <<"w","o","n","d","e","r","f","u","l">>},
                      {<<"j","o","b">>, <<"w","o","r","k">>, <<"s","t","u","f","f">>}, {"!"}, TRUE)
        [] p = 4 ->
             WordsThenClass(l, {<<"n","o","t","e","d">>, <<"a","c","k","n","o","w","l","e","d","g","e","d">>, <<"r","e","c","e","i","v","e","d">>,
                                <<"g","o","t"," ","i","t">>, <<"u","n","d","e","r","s","t","o","o","d">>},
                            {".", "!"} \cup Whitespace)
        [] p = 5 ->
             WordsThenClass(l, {<<"s","o","u","n","d","s"," ","g","o","o","d">>, <<"l","o","o","k","s"," ","g","o","o","d">>, <<"l","g","t","m">>,
                                <<"w","o","r","k","s"," ","f","o","r"," ","m","e">>},
                            {".", "!"} \cup Whitespace) }

\* len(s.split()): the number of maximal runs of non-whitespace
WordCount(s) ==
    Cardinality({i \in 1..Len(s) :
        ~IsSpace(s[i]) /\ (i = 1 \/ IsSpace(s[i - 1]))})

\* sum(1 for c in s if c.isalpha())
AlphaCount(s) == Cardinality({i \in 1..Len(s) : IsAlpha(s[i])})

\* is_noise without the two size tests of lines 97-103
is_noise_nosize(text_in) ==
    IF text_in = <<>> THEN TRUE
    ELSE LET text_stripped == strip(text_in)
             text_lower == lower(text_stripped)
         IN  \/ NoiseMatches(text_stripped) # {}
             \/ NonActionableMatches(text_lower) # {}
             \/ 5 * AlphaCount(text_stripped) < 2 * Len(text_stripped)

\* alpha_count < len(text_stripped) * 0.4 is 5 * alpha_count < 2 * len
is_noise(text_in) ==
    IF text_in = <<>> THEN TRUE
    ELSE LET text_stripped == strip(text_in)
             text_lower == lower(text_stripped)
         IN  \/ NoiseMatches(text_stripped) # {}
             \/ NonActionableMatches(text_lower) # {}
             \/ Len(text_stripped) < MIN_TASK_LENGTH
             \/ WordCount(text_stripped) < MIN_WORD_COUNT
             \/ 5 * AlphaCount(text_stripped) < 2 * Len(text_stripped)

\* .*\.(ext)$ : the .* does not cross a newline
is_filename(text_in) ==
    LET l == lower(strip(text_in))
    IN  EndsWithExtension(l, FileExtensions, Range(l) \ {"\n"}, 0)

\* matched without re.IGNORECASE
is_url_only(text_in) == UrlShape(strip(text_in))

ACTION_VERBS == <<
    <<"d","e","p","l","o","y">>, <<"u","p","d","a","t","e">>, <<"f","i","x">>, <<"m","e","r","g","e">>, <<"r","e","v","i","e","w">>, <<"c","h","e","c","k">>,
    <<"r","e","s","p","o","n","d">>, <<"r","e","p","l","y">>, <<"m","e","s","s","a","g","e">>, <<"s","e","n","d">>, <<"c","r","e","a","t","e">>, <<"a","d","d">>,
    <<"r","e","m","o","v","e">>, <<"d","e","l","e","t","e">>, <<"t","e","s","t">>, <<"v","e","r","i","f","y">>, <<"a","p","p","r","o","v","e">>, <<"r","e","j","e","c","t">>,
    <<"a","s","s","i","g","n">>, <<"m","o","v","e">>, <<"c","h","a","n","g","e">>, <<"m","o","d","i","f","y">>, <<"i","m","p","l","e","m","e","n","t">>,
    <<"s","c","h","e","d","u","l","e">>, <<"r","e","m","i","n","d">>, <<"f","o","l","l","o","w">>, <<"p","i","n","g">>, <<"n","o","t","i","f","y">>, <<"c","o","n","f","i","r","m">>,
    <<"c","o","m","p","l","e","t","e">>, <<"s","u","b","m","i","t">>, <<"p","u","s","h">>, <<"p","u","l","l">>, <<"r","e","l","e","a","s","e">>, <<"r","o","l","l","b","a","c","k">>,
    <<"i","n","v","e","s","t","i","g","a","t","e">>, <<"d","e","b","u","g">>, <<"a","n","a","l","y","z","e">>, <<"p","r","e","p","a","r","e">>, <<"s","e","t","u","p">>,
    <<"c","o","n","f","i","g","u","r","e">>, <<"d","o","c","u","m","e","n","t">>, <<"w","r","i","t","e">>, <<"r","e","a","d">>, <<"e","s","c","a","l","a","t","e">>,
    <<"r","e","s","o","l","v","e">>, <<"c","l","o","s","e">>, <<"r","e","o","p","e","n">>, <<"p","r","i","o","r","i","t","i","z","e">>, <<"d","i","s","c","u","s","s">>,
    <<"m","e","e","t">>, <<"a","t","t","e","n","d">>, <<"j","o","i","n">>, <<"p","a","r","t","i","c","i","p","a","t","e">>, <<"c","o","o","r","d","i","n","a","t","e">>,
    <<"c","o","l","l","a","b","o","r","a","t","e">>, <<"s","h","a","r","e">>, <<"u","p","l","o","a","d">>, <<"d","o","w","n","l","o","a","d">>, <<"i","n","s","t","a","l","l">>,
    <<"u","n","i","n","s","t","a","l","l">>, <<"r","u","n">>, <<"e","x","e","c","u","t","e">>, <<"b","u","i","l","d">>, <<"c","o","m","p","i","l","e">>,
    <<"r","e","f","a","c","t","o","r">>, <<"m","i","g","r","a","t","e">>, <<"b","a","c","k","u","p">>, <<"r","e","s","t","o","r","e">>, <<"m","o","n","i","t","o","r">>,
    <<"t","r","a","c","k">> >>

ACTION_INDICATORS == <<
    <<"c","a","n"," ","y","o","u">>, <<"c","o","u","l","d"," ","y","o","u">>, <<"w","o","u","l","d"," ","y","o","u">>, <<"p","l","e","a","s","e">>, <<"n","e","e","d"," ","t","o">>,
    <<"s","h","o","u","l","d">>, <<"m","u","s","t">>, <<"h","a","v","e"," ","t","o">>, <<"r","e","q","u","i","r","e","d">>, <<"u","r","g","e","n","t">>, <<"a","s","a","p">>,
    <<"p","r","i","o","r","i","t","y">>, <<"d","e","a","d","l","i","n","e">>, <<"b","y"," ","e","o","d">>, <<"b","y"," ","e","n","d"," ","o","f">>, <<"b","e","f","o","r","e">>,
    <<"a","c","t","i","o","n"," ","r","e","q","u","i","r","e","d">>, <<"a","c","t","i","o","n"," ","n","e","e","d","e","d">>, <<"y","o","u","r"," ","t","u","r","n">>,
    <<"w","a","i","t","i","n","g"," ","o","n"," ","y","o","u">>, <<"b","l","o","c","k","e","d"," ","o","n">>, <<"d","e","p","e","n","d","s"," ","o","n"," ","y","o","u">>,
    <<"a","s","s","i","g","n","e","d"," ","t","o"," ","y","o","u">>, <<"@">>, <<"s","u","j","a","y">>, <<"s","u","j","i">> >>

\* has_action_verb with `verb in text_lower' in place of the \b search
has_action_verb_substring(text_in) ==
    LET text_lower == lower(text_in)
    IN  ContainsAny(text_lower, Range(ACTION_VERBS))

\* lines 127-135: re.search(rf'\b{verb}\b', text_lower) for each verb
has_action_verb(text_in) ==
    LET text_lower == lower(text_in)
    IN  \E v \in Range(ACTION_VERBS) : ContainsWord(text_lower, v)

has_action_indicator(text_in) ==
    LET text_lower == lower(text_in)
    IN  ContainsAny(text_lower, Range(ACTION_INDICATORS))

is_meaningful_task(task_text) ==
    IF task_text = <<>> THEN FALSE
    ELSE IF is_noise(task_text) THEN FALSE
    ELSE IF is_filename(task_text) THEN FALSE
    ELSE IF is_url_only(task_text) THEN FALSE
    ELSE IF ~has_action_verb(task_text) /\ ~has_action_indicator(task_text)
         THEN FALSE
    ELSE IF TicketShape(strip(task_text), UpperSet) THEN FALSE
    ELSE TRUE

-----------------------------------------------------------------------------
(* services/task_classifier.py: TaskClassifier.classify.                   *)

DEPLOY_KEYWORDS == <<
    <<"d","e","p","l","o","y">>, <<"r","e","l","e","a","s","e">>, <<"p","u","s","h"," ","t","o"," ","p","r","o","d">>, <<"p","r","o","d","u","c","t","i","o","n">>, <<"s","h","i","p">>,
    <<"l","a","u","n","c","h">>, <<"r","o","l","l","o","u","t">>, <<"g","o"," ","l","i","v","e">>, <<"m","e","r","g","e"," ","t","o"," ","m","a","i","n">>, <<"c","i","/","c","d">>,
    <<"p","i","p","e","l","i","n","e">> >>

MESSAGE_KEYWORDS == <<
    <<"p","i","n","g">>, <<"m","e","s","s","a","g","e">>, <<"d","m">>, <<"s","l","a","c","k">>, <<"t","e","a","m","s">>, <<"c","h","a","t">>, <<"t","e","l","l">>,
    <<"a","s","k">>, <<"r","e","a","c","h"," ","o","u","t">>, <<"c","o","n","t","a","c","t">>, <<"q","u","i","c","k"," ","n","o","t","e">>, <<"f","o","l","l","o","w"," ","u","p"," ","w","i","t","h">> >>

EMAIL_KEYWORDS == <<
    <<"e","m","a","i","l">>, <<"m","a","i","l">>, <<"s","e","n","d"," ","t","o">>, <<"c","o","m","p","o","s","e">>, <<"d","r","a","f","t">>, <<"c","c">>,
    <<"b","c","c">>, <<"s","u","b","j","e","c","t",":">>, <<"d","e","a","r">>, <<"r","e","g","a","r","d","s">>, <<"f","o","r","m","a","l">> >>

REMINDER_KEYWORDS == <<
    <<"r","e","m","i","n","d">>, <<"r","e","m","i","n","d","e","r">>, <<"t","o","m","o","r","r","o","w">>, <<"n","e","x","t"," ","w","e","e","k">>, <<"n","e","x","t"," ","m","o","n","t","h">>,
    <<"b","y"," ","e","n","d"," ","o","f">>, <<"d","e","a","d","l","i","n","e">>, <<"d","u","e">>, <<"s","c","h","e","d","u","l","e">>, <<"c","a","l","e","n","d","a","r">>,
    <<"d","o","n","'","t"," ","f","o","r","g","e","t">>, <<"r","e","m","e","m","b","e","r"," ","t","o">> >>

JIRA_KEYWORDS == <<
    <<"j","i","r","a">>, <<"t","i","c","k","e","t">>, <<"i","s","s","u","e">>, <<"b","u","g">>, <<"s","t","o","r","y">>, <<"e","p","i","c">>,
    <<"s","p","r","i","n","t">>, <<"b","a","c","k","l","o","g">>, <<"k","a","n","b","a","n">>, <<"u","p","d","a","t","e"," ","t","i","c","k","e","t">>, <<"c","l","o","s","e"," ","t","i","c","k","e","t">>,
    <<"a","s","s","i","g","n">>, <<"s","t","a","t","u","s"," ","u","p","d","a","t","e">>, <<"m","o","v","e"," ","t","o">>, <<"i","n"," ","p","r","o","g","r","e","s","s">>,
    <<"c","o","d","e"," ","r","e","v","i","e","w">> >>

\* the positions a run of whitespace that starts at p can end before: p
\* itself when least is 0, and every position up to the end of the run
AfterSpaces(s, p, least) ==
    {q \in (p + least)..(p + RunLength(s, p, Whitespace)) : TRUE}

\* \b(at|by|before|after)\s+\d{1,2}(:\d{2})?\s*(am|pm)?\b : the positions
\* the match can end before, stage by stage; the match exists if one of
\* them is a word boundary
ClockTimeEnds(s, i) ==
    LET afterWord == {i + Len(w) : w \in {x \in {<<"a","t">>, <<"b","y">>, <<"b","e","f","o","r","e">>, <<"a","f","t","e","r">>} :
                                             MatchAt(s, i, x)}}
        afterGap == UNION {AfterSpaces(s, p, 1) : p \in afterWord}
        afterHour == UNION {{p + n : n \in {m \in 1..2 : RunLength(s, p, Digits) >= m}} :
                               p \in afterGap}
        afterMinutes == afterHour \cup
            {p + 3 : p \in {q \in afterHour :
                /\ q + 2 <= Len(s)
                /\ s[q] = ":" /\ IsDigit(s[q + 1]) /\ IsDigit(s[q + 2])}}
        afterGap2 == UNION {AfterSpaces(s, p, 0) : p \in afterMinutes}
    IN  afterGap2 \cup
            {p + 2 : p \in {q \in afterGap2 :
                MatchAt(s, q, <<"a","m">>) \/ MatchAt(s, q, <<"p","m">>)}}

ClockTime(s) ==
    \E i \in 1..Len(s) :
        WordBoundary(s, i) /\ \E e \in ClockTimeEnds(s, i) : WordBoundary(s, e)

Weekdays == {
    <<"m","o","n","d","a","y">>, <<"t","u","e","s","d","a","y">>, <<"w","e","d","n","e","s","d","a","y">>, <<"t","h","u","r","s","d","a","y">>, <<"f","r","i","d","a","y">>,
    <<"s","a","t","u","r","d","a","y">>, <<"s","u","n","d","a","y">> }

Months == {
    <<"j","a","n">>, <<"f","e","b">>, <<"m","a","r">>, <<"a","p","r">>, <<"m","a","y">>, <<"j","u","n">>, <<"j","u","l">>, <<"a","u","g">>,
    <<"s","e","p">>, <<"o","c","t">>, <<"n","o","v">>, <<"d","e","c">> }

\* one of the three time_patterns is found in s
time_patterns(s) ==
    \/ ClockTime(s)
    \/ \E w \in Weekdays : ContainsWord(s, w)
    \/ \E w \in Months : ContainsWord(s, w)

\* classify with the deploy keywords tested before the Jira keywords
classify_deploy_first(text_in) ==
    LET text_lower == lower(text_in)
    IN  IF ContainsAny(text_lower, Range(DEPLOY_KEYWORDS)) THEN DEPLOY
        ELSE IF ContainsAny(text_lower, Range(JIRA_KEYWORDS)) THEN JIRA_UPDATE
        ELSE IF ContainsAny(text_lower, Range(MESSAGE_KEYWORDS)) THEN MESSAGE
        ELSE IF ContainsAny(text_lower, Range(EMAIL_KEYWORDS)) THEN EMAIL
        ELSE IF ContainsAny(text_lower, Range(REMINDER_KEYWORDS)) THEN REMINDER
        ELSE IF time_patterns(text_lower) THEN REMINDER
        ELSE OTHER_CATEGORY

classify(text_in) ==
    LET text_lower == lower(text_in)
    IN  IF ContainsAny(text_lower, Range(JIRA_KEYWORDS)) THEN JIRA_UPDATE
        ELSE IF ContainsAny(text_lower, Range(DEPLOY_KEYWORDS)) THEN DEPLOY
        ELSE IF ContainsAny(text_lower, Range(MESSAGE_KEYWORDS)) THEN MESSAGE
        ELSE IF ContainsAny(text_lower, Range(EMAIL_KEYWORDS)) THEN EMAIL
        ELSE IF ContainsAny(text_lower, Range(REMINDER_KEYWORDS)) THEN REMINDER
        ELSE IF time_patterns(text_lower) THEN REMINDER
        ELSE OTHER_CATEGORY

-----------------------------------------------------------------------------
(* models/task.py: a row of the tasks table, with the columns the graph    *)
(* builder and the routes read.                                            *)

Task(id, cleaned, category, depends_on) ==
    [id |-> id, clean_text |-> cleaned, category |-> category,
     depends_on |-> depends_on]

-----------------------------------------------------------------------------
(* The values the collaborator of services/ai_service.py sends.             *)
(* A Python dict is a function from its keys, so that a key that is absent  *)
(* is told from a key that is present; a JSON value the collaborator sends  *)
(* is an object (a dict) or something that is not an object.                *)

\* dict.get(key, default)
get(d, key, default) == IF key \in DOMAIN d THEN d[key] ELSE default

\* an item of the JSON array the collaborator returns
JsonObject(fields) == [json |-> "object", fields |-> fields]
JsonString == [json |-> "string"]

\* the reply of model.generate_content followed by json.loads: it raises,
\* or it is a list of items
Raises == [raises |-> TRUE, items |-> <<>>]
Reply(items) == [raises |-> FALSE, items |-> items]

-----------------------------------------------------------------------------
(* Bounds of the model.                                                    *)

MaxTasks == 2          \* rows in the tasks table

\* an id without a row: the id of a task that was deleted
MissingId == MaxTasks + 1
\* the id of another task of a list of n tasks (the next one, cyclically)
OtherId(k, n) == (k % n) + 1

\* the depends_on lists build_graph may find on task k of n: empty, one id
\* (the task's own, another task's, a deleted task's), a repeated id, two ids
DepShapes ==
    {"none", "own", "other", "missing", "other twice", "other and missing",
     "other and own"}

DepList(k, n, shape) ==
    CASE shape = "none" -> <<>>
      [] shape = "own" -> <<k>>
      [] shape = "other" -> <<OtherId(k, n)>>
      [] shape = "missing" -> <<MissingId>>
      [] shape = "other twice" -> <<OtherId(k, n), OtherId(k, n)>>
      [] shape = "other and missing" -> <<OtherId(k, n), MissingId>>
      [] shape = "other and own" -> <<OtherId(k, n), k>>

\* the shapes that name other rows of a table of n rows only
StoredDepShapes(n) ==
    IF n >= 2 THEN {"none", "other", "other twice"} ELSE {"none"}

TextDeployPayment == <<"D","e","p","l","o","y"," ","t","h","e"," ","p","a","y","m","e","n","t"," ","s","e","r","v","i","c","e"," ","t","o"," ","p","r","o","d","u","c","t","i","o","n">>
TextMessageAfterDeploy == <<"M","e","s","s","a","g","e"," ","t","h","e"," ","t","e","a","m"," ","a","f","t","e","r"," ","d","e","p","l","o","y"," ","c","o","m","p","l","e","t","e","s">>
TextManyPatterns == <<"S","e","n","d"," ","p","a","y","m","e","n","t"," ","d","o","c","s"," ","o","n","c","e"," ","d","o","n","e"," ","a","f","t","e","r"," ","d","e","p","l","o","y"," ","t","h","e","n"," ","a","f","t","e","r"," ","e","m","a","i","l"," ","n","o","t","i","f","y">>
TextReviewPayment == <<"R","e","v","i","e","w"," ","t","h","e"," ","p","a","y","m","e","n","t"," ","s","e","r","v","i","c","e"," ","l","o","g","s">>
TextThenOnly == <<"F","i","x"," ","l","o","g","i","n"," ","t","h","e","n"," ","r","e","v","i","e","w"," ","p","a","y","m","e","n","t"," ","s","e","r","v","i","c","e">>

\* (clean_text, category) of the tasks the model starts from
TaskPool ==
    { <<TextDeployPayment, DEPLOY>>,
      <<TextMessageAfterDeploy, MESSAGE>>,
      <<TextManyPatterns, EMAIL>>,
      <<TextReviewPayment, OTHER_CATEGORY>>,
      <<TextThenOnly, OTHER_CATEGORY>> }

\* the task list of n tasks with ids 1..n that takes the text and category
\* of task k from pool entry f[k][1] and its depends_on from shape f[k][2]
TaskList(n, f) ==
    [k \in 1..n |-> Task(k, f[k][1][1], f[k][1][2], DepList(k, n, f[k][2]))]

-----------------------------------------------------------------------------
(* routes/graph.py and routes/tasks.py: the request handlers.             *)

NoResponse == [kind |-> "none"]

\* GET /graph
get_graph ==
    /\ response' = IF build_graph_raises(db)
                   THEN [kind |-> "error", status_code |-> 500]
                   ELSE [kind |-> "graph"] @@ build_graph(db)
    /\ UNCHANGED <<db, text, result>>

\* DELETE /tasks/{task_id}
delete_task(task_id) ==
    /\ IF \E k \in 1..Len(db) : db[k].id = task_id
       THEN /\ db' = SelectSeq(db, LAMBDA t : t.id # task_id)
            /\ response' = [kind |-> "message",
                             message |-> "Task deleted successfully"]
       ELSE /\ response' = [kind |-> "error", status_code |-> 404]
            /\ UNCHANGED db
    /\ UNCHANGED <<text, result>>

\* build_graph as a function of its argument: the list is any list of the
\* bounded input set, and the only step is the call.
InitBuildGraph ==
    /\ \E n \in 0..MaxTasks : \E f \in [1..n -> TaskPool \X DepShapes] :
           db = TaskList(n, f)
    /\ response = NoResponse
    /\ text = <<>>
    /\ result = NoResponse

NextBuildGraph == get_graph

SpecBuildGraph == InitBuildGraph /\ [][NextBuildGraph]_vars

\* The tasks table behind GET /graph and DELETE /tasks/{task_id}: it starts
\* with rows whose depends_on name other rows of the table.
InitGraph ==
    /\ \E n \in 0..MaxTasks : \E f \in [1..n -> TaskPool \X StoredDepShapes(n)] :
           db = TaskList(n, f)
    /\ response = NoResponse
    /\ text = <<>>
    /\ result = NoResponse

NextGraph ==
    \/ get_graph
    \/ \E task_id \in 1..MissingId : delete_task(task_id)

SpecGraph == InitGraph /\ [][NextGraph]_vars

\* a second GET /graph on the same table, with seen_edges kept from the call
\* before instead of starting empty
get_graph_again_seen_kept ==
    /\ response.kind = "graph"
    /\ result' = response
    /\ response' =
           [kind |-> "graph",
            nodes |-> build_graph(db).nodes,
            edges |-> unique_edges(
                          ExplicitEdges(db, 1) \o HeuristicEdges(db, 1),
                          {<<response.edges[e].source, response.edges[e].target>> :
                               e \in DOMAIN response.edges})]
    /\ UNCHANGED <<db, text>>

\* a second GET /graph on the same table; the response of the call before
\* is kept in result
get_graph_again ==
    /\ response.kind = "graph"
    /\ result' = response
    /\ response' = [kind |-> "graph"] @@ build_graph(db)
    /\ UNCHANGED <<db, text>>

\* GET /graph called again and again on a table that does not change.
NextRepeat == get_graph \/ get_graph_again

SpecRepeat == InitGraph /\ [][NextRepeat]_vars

\* GET /graph on a table some rows of which have no category (the column is
\* nullable).
NullablePool == TaskPool \cup { <<TextReviewPayment, None>> }

InitNullable ==
    /\ \E n \in 0..MaxTasks :
           \E f \in [1..n -> NullablePool \X StoredDepShapes(n)] :
               db = TaskList(n, f)
    /\ response = NoResponse
    /\ text = <<>>
    /\ result = NoResponse

NextNullable == get_graph

SpecNullable == InitNullable /\ [][NextNullable]_vars

\* TaskValidator.clean_task_text and TaskClassifier.clean_text as functions
\* of their argument: the text is any string of the bounded input set.
MaxCleanLen == 4       \* characters of a text to clean

CleanAlphabet == {"1", "2", ".", ")", "-", " ", "f"}

call_clean_task_text ==
    /\ result' = [kind |-> "clean_task_text", value |-> clean_task_text(text)]
    /\ UNCHANGED <<db, response, text>>

call_clean_text ==
    /\ result' = [kind |-> "clean_text", value |-> clean_text(text)]
    /\ UNCHANGED <<db, response, text>>

InitClean ==
    /\ db = <<>>
    /\ response = NoResponse
    /\ \E n \in 0..MaxCleanLen : \E s \in [1..n -> CleanAlphabet] : text = s
    /\ result = NoResponse

NextClean == call_clean_task_text \/ call_clean_text

SpecClean == InitClean /\ [][NextClean]_vars

\* "\n".join(lines)
RECURSIVE JoinLines(_)
JoinLines(ls) ==
    IF ls = <<>> THEN <<>>
    ELSE IF Len(ls) = 1 THEN ls[1]
    ELSE ls[1] \o <<"\n">> \o JoinLines(Tail(ls))

\* JOIN of words with one space between them
RECURSIVE JoinWords(_)
JoinWords(ws) ==
    IF ws = <<>> THEN <<>>
    ELSE IF Len(ws) = 1 THEN ws[1]
    ELSE ws[1] \o <<" ">> \o JoinWords(Tail(ws))

\* TaskValidator.is_meaningful_task and is_noise as functions of their
\* argument: the text is up to MaxValidateWords words, with or without a
\* leading blank.
MaxValidateWords == 3  \* words of a text to validate

ValidateWords == {
    <<"F","i","x">>, <<"t","h","e">>, <<"b","u","g">>, <<"d","e","p","l","o","y">>, <<"p","r","o","d","u","c","t","i","o","n","-","s","e","r","v","i","c","e">>, <<"a","s","a","p">>,
    <<"n","o","w">>, <<"n","o","t","e","s",".","m","d">>, <<"1","2","3","4","5","6","7","8">> }

call_is_meaningful_task ==
    /\ result' = [kind |-> "is_meaningful_task",
                  value |-> is_meaningful_task(text)]
    /\ UNCHANGED <<db, response, text>>

call_is_noise ==
    /\ result' = [kind |-> "is_noise", value |-> is_noise(text)]
    /\ UNCHANGED <<db, response, text>>

InitValidate ==
    /\ db = <<>>
    /\ response = NoResponse
    /\ \E n \in 0..MaxValidateWords : \E ws \in [1..n -> ValidateWords] :
           \E pad \in {<<>>, <<" ">>} : text = pad \o JoinWords(ws)
    /\ result = NoResponse

NextValidate == call_is_meaningful_task \/ call_is_noise

SpecValidate == InitValidate /\ [][NextValidate]_vars

\* TaskClassifier.classify as a function of its argument: the text is up to
\* MaxClassifyWords words.
MaxClassifyWords == 3  \* words of a text to classify

ClassifyWords == {
    <<"J","i","r","a">>, <<"d","e","p","l","o","y">>, <<"p","i","n","g">>, <<"e","m","a","i","l">>, <<"r","e","m","i","n","d">>, <<"f","r","i","d","a","y">>,
    <<"f","r","i","d","a","y","s">>, <<"a","t">>, <<"3","p","m">>, <<"l","u","n","c","h">> }

call_classify ==
    /\ result' = [kind |-> "classify", value |-> classify(text)]
    /\ UNCHANGED <<db, response, text>>

InitClassify ==
    /\ db = <<>>
    /\ response = NoResponse
    /\ \E n \in 0..MaxClassifyWords : \E ws \in [1..n -> ClassifyWords] :
           text = JoinWords(ws)
    /\ result = NoResponse

NextClassify == call_classify

SpecClassify == InitClassify /\ [][NextClassify]_vars

\* The tasks table behind POST /tasks/parse, PATCH /tasks/{task_id},
\* POST /tasks/reanalyze and DELETE /tasks/{task_id}.  A request has up to
\* MaxLines lines, the collaborator answers with up to as many items, and the
\* table holds up to MaxLines rows with ids up to MaxTaskId.
MaxLines == 2          \* lines of a parse request, rows of the table
MaxImprovements == 1   \* items of the collaborator's reply to a re-analysis

MaxTaskId == MaxLines + 1

LineDeploy == <<"-"," ","D","e","p","l","o","y"," ","t","h","e"," ","n","e","w"," ","a","p","p">>
LineOk == <<"o","k">>
LineNumber == <<"1",".">>

RequestLines == {LineDeploy, LineOk, LineNumber}

TextOk == <<"o","k">>
TextDeployApp == <<"D","e","p","l","o","y"," ","t","h","e"," ","n","e","w"," ","a","p","p">>
TextSendEmail == <<"S","e","n","d"," ","t","h","e"," ","t","e","a","m"," ","e","m","a","i","l">>

\* the items the collaborator answers a parse request with
ParseItems == {
    JsonObject([is_valid |-> TRUE, improved_text |-> TextSendEmail,
                category |-> "email", depends_on_indices |-> <<1, 2>>]),
    JsonObject([is_valid |-> TRUE, improved_text |-> TextDeployApp,
                category |-> "urgent", depends_on_indices |-> <<2, 3>>]),
    JsonObject([improved_text |-> TextOk]),
    JsonObject([is_valid |-> FALSE, reason |-> "not a task"]),
    JsonString }

\* the items the collaborator answers a re-analysis with
ReanalyzeItems ==
    UNION { { JsonObject([original_index |-> i, is_valid |-> TRUE,
                          improved_text |-> TextDeployApp,
                          category |-> "urgent"]),
              JsonObject([original_index |-> i, is_valid |-> TRUE,
                          improved_text |-> TextOk, category |-> "deploy"]),
              JsonObject([original_index |-> i, is_valid |-> FALSE]) } :
            i \in 0..(MaxLines - 1) }
        \cup {JsonString}

\* the bodies of PATCH /tasks/{task_id}
TaskUpdates == {
    [clean_text |-> <<>>],
    [clean_text |-> TextSendEmail],
    [category |-> EMAIL] }

\* The lines and the texts that the requests, the replies and the updates
\* above hold.
KnownLines == {strip(l) : l \in RequestLines}

KnownTexts ==
    {clean_text(l) : l \in KnownLines}
        \cup {clean_task_text(clean_text(l)) : l \in KnownLines}
        \cup {TextOk, TextDeployApp, TextSendEmail, <<>>}

\* TaskClassifier.clean_text, TaskValidator.clean_task_text,
\* TaskValidator.is_meaningful_task and TaskClassifier.classify as the
\* handlers call them; the values for the known texts are computed once.
CleanTextOfLine == [l \in KnownLines |-> clean_text(l)]

CleanTaskTextOf == [t \in KnownTexts |-> clean_task_text(t)]

MeaningfulTexts == {t \in KnownTexts : is_meaningful_task(t)}

CategoryOfText == [t \in KnownTexts |-> classify(t)]

TaskClassifier_clean_text(raw_text) ==
    IF raw_text \in KnownLines THEN CleanTextOfLine[raw_text]
    ELSE clean_text(raw_text)

TaskValidator_clean_task_text(text_in) ==
    IF text_in \in KnownTexts THEN CleanTaskTextOf[text_in]
    ELSE clean_task_text(text_in)

TaskValidator_is_meaningful_task(task_text) ==
    IF task_text \in KnownTexts THEN task_text \in MeaningfulTexts
    ELSE is_meaningful_task(task_text)

TaskClassifier_classify(text_in) ==
    IF text_in \in KnownTexts THEN CategoryOfText[text_in]
    ELSE classify(text_in)

-----------------------------------------------------------------------------
(* services/ai_service.py: AIService.analyze_tasks and                      *)
(* AIService.reanalyze_tasks, and what routes/tasks.py does with them.      *)

\* the dict analyze_tasks puts in place of a result it does not have
DefaultResult(reason) ==
    [category |-> "other", time |-> None, depends_on_indices |-> <<>>,
     is_valid |-> FALSE, reason |-> reason]

\* lines 225-231: the indices (from 1) of the texts that pass the pre-filter
original_indices(tasks_text) ==
    {i \in 1..Len(tasks_text) :
        TaskValidator_is_meaningful_task(TaskValidator_clean_task_text(tasks_text[i]))}

\* lines 325-338: the result kept for one item the collaborator returned
validated_result(ai_result) ==
    IF get(ai_result, "is_valid", FALSE)
    THEN LET improved == get(ai_result, "improved_text", <<>>)
         IN  IF improved # <<>> /\ TaskValidator_is_meaningful_task(improved)
             THEN ai_result
             ELSE [is_valid |-> FALSE,
                   reason |-> "Improved text failed validation"] @@ ai_result
    ELSE ai_result

\* lines 213-369; filtered is original_indices, and the result for text i is
\* at position ai_result_idx + 1, the number of filtered texts up to i
analyze_tasks(tasks_text, reply) ==
    LET filtered == original_indices(tasks_text)
        position(i) == Cardinality({j \in filtered : j <= i})
        items_read == {k \in 1..Len(reply.items) : k <= Cardinality(filtered)}
    IN  IF tasks_text = <<>> THEN <<>>
        ELSE IF filtered = {}
        THEN [i \in 1..Len(tasks_text) |->
                  DefaultResult("No meaningful tasks found")]
        ELSE IF \/ reply.raises
                \/ \E k \in items_read : reply.items[k].json # "object"
        THEN \* except Exception: every text gets the error result
             [i \in 1..Len(tasks_text) |-> DefaultResult("AI analysis error")]
        ELSE [i \in 1..Len(tasks_text) |->
                  IF i \in filtered
                  THEN IF position(i) <= Len(reply.items)
                       THEN validated_result(reply.items[position(i)].fields)
                       ELSE DefaultResult("AI did not return result")
                  ELSE DefaultResult("Filtered as noise in pre-processing")]

\* str.split(sep) for a one-character separator
RECURSIVE split(_, _)
split(s, sep) ==
    IF \A k \in 1..Len(s) : s[k] # sep THEN <<s>>
    ELSE LET k == CHOOSE i \in 1..Len(s) :
                      s[i] = sep /\ \A j \in 1..(i - 1) : s[j] # sep
         IN  <<SubSeq(s, 1, k - 1)>> \o split(SubSeq(s, k + 1, Len(s)), sep)

\* parse_tasks lines 34-45: the candidates, (raw line, cleaned text) in
\* line order
RECURSIVE LineMapping(_)
LineMapping(lines) ==
    IF lines = <<>> THEN <<>>
    ELSE LET line == strip(Head(lines))
         IN  (IF line # <<>> /\ TaskClassifier_clean_text(line) # <<>>
              THEN << [raw_text |-> line, clean_text |-> TaskClassifier_clean_text(line)] >>
              ELSE <<>>)
             \o LineMapping(Tail(lines))

line_mapping(request_text) == LineMapping(split(strip(request_text), "\n"))

\* TaskCategory(category_str) succeeds
IsCategory(category_str) == category_str \in TaskCategory

\* a row of the tasks table as parse_tasks writes it
TaskRow(id, raw_text, cleaned, category, depends_on, was_improved) ==
    Task(id, cleaned, category, depends_on)
        @@ [raw_text |-> raw_text, was_improved |-> was_improved,
            status |-> "todo"]

\* the id the table gives the next row (an INTEGER PRIMARY KEY of SQLite)
MaxOf(S) == IF S = {} THEN 0 ELSE CHOOSE x \in S : \A y \in S : y <= x
last_id(rows) == MaxOf({rows[k].id : k \in DOMAIN rows})

\* lines 63-73: candidate idx is turned into a task
is_created(mapping, ai_results, idx) ==
    /\ get(ai_results[idx], "is_valid", TRUE)
    /\ TaskValidator_is_meaningful_task(mapping[idx].clean_text)

\* lines 110-116 without the test dep_idx != original_idx
depends_on_ids_unfiltered(depends_on_indices, task_id_map, original_idx) ==
    LET kept == SelectSeq(depends_on_indices,
                          LAMBDA dep_idx : dep_idx \in DOMAIN task_id_map)
    IN  [k \in 1..Len(kept) |-> task_id_map[kept[k]]]

\* lines 110-116: the ids of the tasks the indices name
depends_on_ids(depends_on_indices, task_id_map, original_idx) ==
    LET kept == SelectSeq(depends_on_indices,
                          LAMBDA dep_idx : /\ dep_idx \in DOMAIN task_id_map
                                           /\ dep_idx # original_idx)
    IN  [k \in 1..Len(kept) |-> task_id_map[kept[k]]]

\* lines 57, 66, 72 with the count of line 66 left out
filtered_count_validation_only(mapping, ai_results) ==
    Cardinality({idx \in DOMAIN mapping :
        /\ get(ai_results[idx], "is_valid", TRUE)
        /\ ~TaskValidator_is_meaningful_task(mapping[idx].clean_text)})

\* lines 57, 66, 72: the candidates that were skipped
filtered_count(mapping, ai_results) ==
    Cardinality({idx \in DOMAIN mapping :
        ~is_created(mapping, ai_results, idx)})

\* lines 60-116: the rows parse_tasks adds to the table
created_tasks(rows, mapping, ai_results) ==
    LET created == {idx \in DOMAIN mapping :
                       is_created(mapping, ai_results, idx)}
        task_id_map == [idx \in created |->
            last_id(rows) + Cardinality({j \in created : j <= idx})]
        NewRow(idx) ==
            LET ai_result == ai_results[idx]
                category_str == get(ai_result, "category", "other")
                improved_text == get(ai_result, "improved_text", <<>>)
                cleaned == mapping[idx].clean_text
            IN  TaskRow(task_id_map[idx],
                        mapping[idx].raw_text,
                        IF improved_text # <<>> THEN improved_text ELSE cleaned,
                        IF IsCategory(category_str) THEN category_str
                        ELSE TaskClassifier_classify(cleaned),
                        depends_on_ids(get(ai_result, "depends_on_indices", <<>>),
                                       task_id_map, idx),
                        improved_text # <<>>)
        order == SelectSeq([idx \in DOMAIN mapping |-> idx],
                           LAMBDA idx : idx \in created)
    IN  [k \in 1..Len(order) |-> NewRow(order[k])]

\* AIService.reanalyze_tasks lines 759-786: what one improvement becomes
improved_task(tasks, improvement) ==
    LET original_task == tasks[get(improvement, "original_index", -1) + 1]
        improved_text == get(improvement, "improved_text", <<>>)
        category == get(improvement, "category", "")
    IN  IF get(improvement, "is_valid", FALSE)
        THEN IF improved_text # <<>> /\ TaskValidator_is_meaningful_task(improved_text)
             THEN [clean_text |-> improved_text,
                   category |-> IF category # "" THEN category
                                ELSE original_task.category,
                   was_improved |-> TRUE, is_valid |-> TRUE] @@ original_task
             ELSE [is_valid |-> FALSE,
                   reason |-> "Improved text failed validation"]
                      @@ original_task
        ELSE [is_valid |-> FALSE,
              reason |-> get(improvement, "reason", "Identified as noise")]
                 @@ original_task

\* AIService.reanalyze_tasks
AIService_reanalyze_tasks(tasks, reply) ==
    IF tasks = <<>> THEN <<>>
    ELSE IF \/ reply.raises
            \/ \E k \in DOMAIN reply.items : reply.items[k].json # "object"
    THEN \* except Exception: the tasks as they are, validated
         [k \in DOMAIN tasks |->
             [is_valid |-> TaskValidator_is_meaningful_task(tasks[k].clean_text)] @@ tasks[k]]
    ELSE LET in_range ==
                 SelectSeq([k \in DOMAIN reply.items |-> reply.items[k].fields],
                           LAMBDA improvement :
                               LET idx == get(improvement, "original_index", -1)
                               IN  idx >= 0 /\ idx < Len(tasks))
         IN  [k \in DOMAIN in_range |-> improved_task(tasks, in_range[k])]

\* reanalyze_tasks lines 340-401: what happens to one row
row_outcome(task, improvement_lookup) ==
    IF task.id \in DOMAIN improvement_lookup
    THEN LET imp == improvement_lookup[task.id]
         IN  IF ~get(imp, "is_valid", TRUE) THEN "removed"
             ELSE IF \/ get(imp, "clean_text", task.clean_text) # task.clean_text
                     \/ get(imp, "category", task.category) # task.category
             THEN "improved"
             ELSE "unchanged"
    ELSE "unchanged"

\* the row after the loop body; <<>> when the row is deleted
reanalyzed_row(task, improvement_lookup) ==
    LET outcome == row_outcome(task, improvement_lookup)
        imp == improvement_lookup[task.id]
    IN  IF outcome = "removed" THEN <<>>
        ELSE IF outcome = "improved"
        THEN << [clean_text |-> get(imp, "clean_text", task.clean_text),
                 category |-> IF IsCategory(get(imp, "category", task.category))
                              THEN imp.category ELSE task.category,
                 was_improved |-> TRUE] @@ task >>
        ELSE <<task>>

RECURSIVE ReanalyzedRows(_, _, _)
ReanalyzedRows(tasks, improvement_lookup, k) ==
    IF k > Len(tasks) THEN <<>>
    ELSE reanalyzed_row(tasks[k], improvement_lookup)
         \o ReanalyzedRows(tasks, improvement_lookup, k + 1)


\* parse_tasks lines 34-127 on the table `rows`: what it returns; the tasks
\* returned are the rows it adds
parsed(rows, request_text, reply) ==
    LET mapping == line_mapping(request_text)
        clean_lines == [k \in DOMAIN mapping |-> mapping[k].clean_text]
        ai_results == analyze_tasks(clean_lines, reply)
        tasks == created_tasks(rows, mapping, ai_results)
    IN  IF mapping = <<>>
        THEN [kind |-> "parse", tasks |-> <<>>, count |-> 0,
              filtered_count |-> 0]
        ELSE [kind |-> "parse", tasks |-> tasks, count |-> Len(tasks),
              filtered_count |-> filtered_count(mapping, ai_results)]

\* POST /tasks/parse
parse_tasks(request_text, reply) ==
    \E returned \in {parsed(db, request_text, reply)} :
        /\ Len(db) + returned.count <= MaxLines
        /\ last_id(db) + returned.count <= MaxTaskId
        /\ db' = db \o returned.tasks
        /\ response' = returned
        /\ text' = request_text
        /\ result' = [kind |-> "generate_content", value |-> reply]

\* update_task lines 194-204 with an assignment to raw_text added
updated_raw_text(task, task_update) ==
    [raw_text |-> get(task_update, "clean_text", task.raw_text),
     clean_text |-> get(task_update, "clean_text", task.clean_text),
     category |-> get(task_update, "category", task.category),
     status |-> get(task_update, "status", task.status),
     was_improved |->
         \/ task.was_improved
         \/ /\ get(task_update, "clean_text", <<>>) # <<>>
            /\ task_update.clean_text # task.clean_text]
        @@ task

\* update_task lines 194-204: the row after the update
updated(task, task_update) ==
    [clean_text |-> get(task_update, "clean_text", task.clean_text),
     category |-> get(task_update, "category", task.category),
     status |-> get(task_update, "status", task.status),
     was_improved |->
         \/ task.was_improved
         \/ /\ get(task_update, "clean_text", <<>>) # <<>>
            /\ task_update.clean_text # task.clean_text]
        @@ task

\* PATCH /tasks/{task_id}
update_task(task_id, task_update) ==
    /\ IF \E k \in DOMAIN db : db[k].id = task_id
       THEN \E k \in {i \in DOMAIN db : db[i].id = task_id} :
            \E task \in {updated(db[k], task_update)} :
                /\ db' = [db EXCEPT ![k] = task]
                /\ response' = [kind |-> "task", task |-> task]
       ELSE /\ response' = [kind |-> "error", status_code |-> 404]
            /\ UNCHANGED db
    /\ UNCHANGED <<text, result>>

\* reanalyze_tasks lines 302-412 on the table `rows`, for all tasks: the
\* rows it leaves and what it returns
reanalyzed(rows, reply) ==
    LET task_dicts == [k \in DOMAIN rows |->
                          [id |-> rows[k].id, text |-> rows[k].clean_text,
                           clean_text |-> rows[k].clean_text,
                           raw_text |-> rows[k].raw_text,
                           category |-> rows[k].category]]
        improved_tasks == AIService_reanalyze_tasks(task_dicts, reply)
        ids == {improved_tasks[k].id : k \in DOMAIN improved_tasks}
        improvement_lookup ==
            [id \in ids |->
                improved_tasks[CHOOSE k \in DOMAIN improved_tasks :
                    /\ improved_tasks[k].id = id
                    /\ \A j \in DOMAIN improved_tasks :
                           improved_tasks[j].id = id => j <= k]]
        count(outcome) == Cardinality({k \in DOMAIN rows :
                              row_outcome(rows[k], improvement_lookup) = outcome})
    IN  [rows |-> ReanalyzedRows(rows, improvement_lookup, 1),
         response |-> [kind |-> "reanalyze",
                       improved_count |-> count("improved"),
                       removed_count |-> count("removed"),
                       unchanged_count |-> count("unchanged")]]

\* POST /tasks/reanalyze
reanalyze_tasks(reply) ==
    \E outcome \in {reanalyzed(db, reply)} :
        /\ db' = outcome.rows
        /\ response' = outcome.response
        /\ text' = <<>>
        /\ result' = [kind |-> "generate_content", value |-> reply]

\* the replies of up to n items
Replies(items, n) ==
    {Raises} \cup UNION { {Reply(r) : r \in [1..m -> items]} : m \in 0..n }

InitTasks ==
    /\ db = <<>>
    /\ response = NoResponse
    /\ text = <<>>
    /\ result = NoResponse

NextTasks ==
    \/ \E m \in 0..(MaxLines - Len(db)) : \E ls \in [1..m -> RequestLines] :
         \E reply \in Replies(ParseItems, m) : parse_tasks(JoinLines(ls), reply)
    \/ \E task_id \in 1..MaxTaskId : \E task_update \in TaskUpdates :
         update_task(task_id, task_update)
    \/ \E reply \in Replies(ReanalyzeItems, MaxImprovements) :
         reanalyze_tasks(reply)
    \/ \E task_id \in 1..MaxTaskId : delete_task(task_id)

SpecTasks == InitTasks /\ [][NextTasks]_vars

\* The validator and the classifier on texts that name a ticket: the text is
\* up to MaxTicketWords of the phrases below.
MaxTicketWords == 4    \* phrases of a text that names a ticket

TicketWords == { <<"R","e","v","i","e","w">>, <<"C","L","P","B","-","1","9","0","3">>, <<"a","n","d">>, <<"u","p","d","a","t","e"," ","s","t","a","t","u","s">> }

TextReviewTicket == <<"R","e","v","i","e","w"," ","C","L","P","B","-","1","9","0","3"," ","a","n","d"," ","u","p","d","a","t","e"," ","s","t","a","t","u","s">>
TextBareTicket == <<"C","L","P","B","-","1","9","0","3">>

InitTicket ==
    /\ db = <<>>
    /\ response = NoResponse
    /\ \E n \in 0..MaxTicketWords : \E ws \in [1..n -> TicketWords] :
           text = JoinWords(ws)
    /\ result = NoResponse

NextTicket == call_is_meaningful_task \/ call_classify

SpecTicket == InitTicket /\ [][NextTicket]_vars

-----------------------------------------------------------------------------
(* Properties of the graph builder, stated on the response of GET /graph.  *)
(* While response.kind = "graph", db is the table the graph was built from.*)

GraphReturned == response.kind = "graph"

NodeIds == {response.nodes[k].id : k \in DOMAIN response.nodes}

EdgesInto(target) == {e \in Range(response.edges) : e.target = target}

HasDuplicatePair(edges) ==
    \E i, j \in DOMAIN edges :
        i # j /\ edges[i].source = edges[j].source /\ edges[i].target = edges[j].target

\* the entries of DEPENDENCY_PATTERNS that match the text of row k
MatchingPatterns(k) ==
    {p \in DOMAIN DEPENDENCY_PATTERNS :
        re_search(DEPENDENCY_PATTERNS[p], lower(db[k].clean_text))}

\* C1: build_graph returns no edge whose source equals its target, for
\* every task list, also one where a depends_on holds the task's own id.
C1_NoSelfLoop ==
    GraphReturned => \A e \in Range(response.edges) : e.source # e.target

\* C2: build_graph returns no two edges with the same (source, target)
\* pair, whichever rules produced them and however often.
C2_NoDuplicatePairs ==
    GraphReturned => ~HasDuplicatePair(response.edges)

\* C2 witness: a graph was returned for a table where both the explicit and
\* the heuristic rules generated some pair more than once.
C2_Witness ==
    /\ GraphReturned
    /\ HasDuplicatePair(ExplicitEdges(db, 1))
    /\ HasDuplicatePair(HeuristicEdges(db, 1))

\* C3: every edge build_graph returns has its source and its target among
\* the ids of the returned nodes; no edge is emitted for a depends_on id
\* that is the id of no task of the list.
C3_EdgesWithinNodes ==
    GraphReturned =>
        \A e \in Range(response.edges) : e.source \in NodeIds /\ e.target \in NodeIds

\* C4: for a task without explicit dependencies, only the first entry of
\* DEPENDENCY_PATTERNS that matches its text produces edges: the edges into
\* the task are those that entry appends, and later entries add none.
C4_FirstPatternOnly ==
    GraphReturned =>
        \A k \in DOMAIN db :
            (db[k].depends_on = <<>> /\ MatchingPatterns(k) # {}) =>
                LET first == CHOOSE p \in MatchingPatterns(k) :
                                 \A q \in MatchingPatterns(k) : p <= q
                    acts == PatternActs(db[k], db, lower(db[k].clean_text),
                                        DEPENDENCY_PATTERNS[first])
                IN  EdgesInto(str(db[k].id)) = Range(acts)

\* C5: for a task T with a non-empty depends_on, build_graph returns
\* exactly one edge per distinct dependency id d, from d to T and labelled
\* "depends", and no other edge into T, also when T's text matches a
\* dependency pattern.
C5_ExplicitOnly ==
    GraphReturned =>
        \A k \in DOMAIN db :
            db[k].depends_on # <<>> =>
                /\ EdgesInto(str(db[k].id)) =
                       { GraphEdge(str(d), str(db[k].id), "depends") :
                            d \in Range(db[k].depends_on) }
                /\ \A d \in Range(db[k].depends_on) :
                       Cardinality({i \in DOMAIN response.edges :
                                       /\ response.edges[i].source = str(d)
                                       /\ response.edges[i].target = str(db[k].id)}) = 1

\* C5 witness: a graph was returned for a table with a task that has
\* explicit dependencies and for which the pattern loop, had it run, would
\* have appended an edge from a task that is none of its dependencies.
C5_Witness ==
    /\ GraphReturned
    /\ \E k \in DOMAIN db :
        /\ db[k].depends_on # <<>>
        /\ \E e \in Range(PatternEdges(db[k], db, lower(db[k].clean_text), 1)) :
               e.source \notin {str(d) : d \in Range(db[k].depends_on)}

\* no task has explicit dependencies and no text matches a pattern
NothingToLink ==
    \A k \in DOMAIN db : db[k].depends_on = <<>> /\ MatchingPatterns(k) = {}

\* C6: if every task has an empty depends_on and no task's lower-cased
\* text matches any entry of DEPENDENCY_PATTERNS, the edge list is empty.
C6_NoEdges ==
    (GraphReturned /\ NothingToLink) => response.edges = <<>>

\* C6 witness: a graph was returned for two or more such tasks, one of them
\* of a category a pattern names, that share two words of four letters.
C6_Witness ==
    /\ GraphReturned
    /\ NothingToLink
    /\ \E j, k \in DOMAIN db :
        /\ j # k
        /\ db[j].category = DEPLOY
        /\ Cardinality(findall_words(lower(db[j].clean_text))
                         \cap findall_words(lower(db[k].clean_text))) >= MinCommonWords

\* C7: for a task B without explicit dependencies whose text matches a
\* pattern that names a category (the first entry that matches it), the
\* "blocks" edges into B come from every other task of that category and
\* from no task of another category.
C7_BlocksFromCategoryOnly ==
    GraphReturned =>
        \A k \in DOMAIN db :
            (db[k].depends_on = <<>> /\ MatchingPatterns(k) # {}) =>
                LET first == CHOOSE p \in MatchingPatterns(k) :
                                 \A q \in MatchingPatterns(k) : p <= q
                    category == DEPENDENCY_PATTERNS[first].category
                IN  category # None =>
                      { e.source : e \in {x \in EdgesInto(str(db[k].id)) :
                                            x.label = "blocks"} }
                        = { str(db[j].id) : j \in {i \in DOMAIN db :
                                /\ db[i].id # db[k].id
                                /\ db[i].category = category} }

-----------------------------------------------------------------------------
(* Properties of the text functions, stated on the result of the call.     *)

\* C8: clean_task_text is idempotent: cleaning its own result again
\* returns that result unchanged, for every input string.
C8_CleanIdempotent ==
    result.kind = "clean_task_text" =>
        clean_task_text(result.value) = result.value

HasKeyword(table) == ContainsAny(lower(text), Range(table))

\* C10: classify returns the category of the first keyword table, in the
\* order jira_update, deploy, message, email, reminder, of which the
\* lower-cased text holds a keyword; with no keyword of any table it
\* returns reminder if a time pattern is found and other if none is.
C10_ClassifyPriority ==
    result.kind = "classify" =>
        LET j == HasKeyword(JIRA_KEYWORDS)
            d == HasKeyword(DEPLOY_KEYWORDS)
            m == HasKeyword(MESSAGE_KEYWORDS)
            e == HasKeyword(EMAIL_KEYWORDS)
            r == HasKeyword(REMINDER_KEYWORDS)
            t == time_patterns(lower(text))
        IN  /\ result.value = JIRA_UPDATE <=> j
            /\ result.value = DEPLOY <=> (~j /\ d)
            /\ result.value = MESSAGE <=> (~j /\ ~d /\ m)
            /\ result.value = EMAIL <=> (~j /\ ~d /\ ~m /\ e)
            /\ result.value = REMINDER <=> (~j /\ ~d /\ ~m /\ ~e /\ (r \/ t))
            /\ result.value = OTHER_CATEGORY <=>
                   (~j /\ ~d /\ ~m /\ ~e /\ ~r /\ ~t)

\* C10 witness: classify returned jira_update for a text that holds a Jira
\* keyword, a deploy keyword and a message keyword.
C10_Witness ==
    /\ result.kind = "classify"
    /\ HasKeyword(JIRA_KEYWORDS)
    /\ HasKeyword(DEPLOY_KEYWORDS)
    /\ HasKeyword(MESSAGE_KEYWORDS)
    /\ result.value = JIRA_UPDATE

\* C11: for 'Review CLPB-1903 and update status' is_meaningful_task returns
\* True and classify returns jira_update; for the bare 'CLPB-1903'
\* is_meaningful_task returns False.
C11_TicketScenario ==
    /\ (text = TextReviewTicket /\ result.kind = "is_meaningful_task")
           => result.value = TRUE
    /\ (text = TextReviewTicket /\ result.kind = "classify")
           => result.value = JIRA_UPDATE
    /\ (text = TextBareTicket /\ result.kind = "is_meaningful_task")
           => result.value = FALSE

-----------------------------------------------------------------------------
(* The tasks table.                                                         *)

\* the response of the last call is that of POST /tasks/parse
ParseReturned == response.kind = "parse"

\* C12: every task that parse_tasks stores with the improved text of the
\* collaborator as its clean_text has a clean_text that is_meaningful_task
\* accepts, whatever fields the items of the collaborator's reply have.
C12_ImprovedTextRevalidated ==
    ParseReturned =>
        \A k \in DOMAIN response.tasks :
            response.tasks[k].was_improved =>
                is_meaningful_task(response.tasks[k].clean_text)

\* the candidates of the request of the last parse, what analyze_tasks made
\* of the collaborator's reply to them, and the candidates that became tasks,
\* in order: response.tasks[k] is the task of candidate CreatedFrom[k]
Candidates == line_mapping(text)

AiResults ==
    analyze_tasks([k \in DOMAIN Candidates |-> Candidates[k].clean_text],
                  result.value)

CreatedFrom ==
    SelectSeq([idx \in DOMAIN Candidates |-> idx],
              LAMBDA idx : is_created(Candidates, AiResults, idx))

\* the collaborator's reply is a list of objects
WellFormed(reply) ==
    ~reply.raises /\ \A k \in DOMAIN reply.items : reply.items[k].json = "object"

\* parse_tasks: a task whose result has a category string outside the
\* enumeration is stored with the classifier's category of the candidate
ParseFallsBack ==
    ParseReturned =>
        \A k \in DOMAIN response.tasks :
            ~IsCategory(get(AiResults[CreatedFrom[k]], "category", "other"))
                => response.tasks[k].category
                       = classify(Candidates[CreatedFrom[k]].clean_text)

\* reanalyze_tasks: while no row was removed, the row at position k is the
\* task of original_index k - 1; a row that holds the text of an improvement
\* whose category string is outside the enumeration has the classifier's
\* category of that text
ReanalyzeFallsBack ==
    (/\ response.kind = "reanalyze"
     /\ WellFormed(result.value)
     /\ response.removed_count = 0) =>
        \A k \in DOMAIN db : \A i \in DOMAIN result.value.items :
            LET improvement == result.value.items[i].fields
            IN  (/\ get(improvement, "original_index", -1) = k - 1
                 /\ get(improvement, "is_valid", FALSE)
                 /\ ~IsCategory(get(improvement, "category", "other"))
                 /\ db[k].clean_text = improvement.improved_text)
                => db[k].category = classify(db[k].clean_text)

\* C13: whenever a category string returned by the collaborator is not one
\* of the six values of the enumeration, the stored category is the result
\* of the classifier on the task's text, both when tasks are created
\* (parse_tasks) and when they are re-analysed (reanalyze_tasks).
C13_CategoryFallback == ParseFallsBack /\ ReanalyzeFallsBack

\* the item of the collaborator's reply that answers candidate idx: the
\* collaborator is sent the candidates that pass the pre-filter, in order
Prefiltered ==
    {idx \in DOMAIN Candidates :
        TaskValidator_is_meaningful_task(
            TaskValidator_clean_task_text(Candidates[idx].clean_text))}

ItemIndex(idx) == Cardinality({j \in Prefiltered : j <= idx})

\* the candidates that are meaningful and whose own item is an object that
\* says is_valid with an improved text that is meaningful
WellAnswered ==
    {idx \in Prefiltered :
        /\ TaskValidator_is_meaningful_task(Candidates[idx].clean_text)
        /\ ~result.value.raises
        /\ ItemIndex(idx) <= Len(result.value.items)
        /\ LET item == result.value.items[ItemIndex(idx)]
           IN  /\ item.json = "object"
               /\ get(item.fields, "is_valid", FALSE)
               /\ get(item.fields, "improved_text", <<>>) # <<>>
               /\ TaskValidator_is_meaningful_task(item.fields.improved_text)}

\* C14: in a batch handled by analyze_tasks and parse_tasks a malformed
\* result for one candidate affects only that candidate; every other
\* candidate whose result is well-formed and valid is turned into a task.
C14_MalformedItemIsolated ==
    ParseReturned =>
        /\ response.count >= Cardinality(WellAnswered)
        /\ \A idx \in WellAnswered :
               \E k \in DOMAIN response.tasks :
                   /\ response.tasks[k].raw_text = Candidates[idx].raw_text
                   /\ response.tasks[k].clean_text
                          = result.value.items[ItemIndex(idx)].fields.improved_text

\* C15: after any sequence of parse_tasks, update_task, reanalyze_tasks and
\* delete_task every stored task has a non-empty clean_text.
C15_CleanTextNonEmpty == \A k \in DOMAIN db : db[k].clean_text # <<>>

\* C16: after any sequence of parse_tasks, update_task, reanalyze_tasks and
\* delete_task no stored task's depends_on holds the task's own id, whatever
\* dependency indices the collaborator returned.
C16_NoSelfDependency ==
    \A k \in DOMAIN db : db[k].id \notin Range(db[k].depends_on)

\* a task was stored whose result named the candidate itself, and another
\* candidate, in depends_on_indices
C16_Witness ==
    /\ ParseReturned
    /\ \E k \in DOMAIN response.tasks :
           /\ CreatedFrom[k] \in Range(get(AiResults[CreatedFrom[k]],
                                            "depends_on_indices", <<>>))
           /\ response.tasks[k].depends_on # <<>>
           /\ \E j \in DOMAIN db : db[j] = response.tasks[k]

\* the lines of the request that are not blank and whose cleaned text is not
\* empty
CandidateLines ==
    LET lines == split(text, "\n")
    IN  {k \in DOMAIN lines :
            /\ strip(lines[k]) # <<>>
            /\ TaskClassifier_clean_text(strip(lines[k])) # <<>>}

\* the response counts every candidate line, as a task or as filtered
EveryLineCounted ==
    ParseReturned =>
        /\ response.count + response.filtered_count
               = Cardinality(CandidateLines)
        /\ response.count = Len(response.tasks)

\* a call of parse_tasks adds the tasks it returns, and nothing else, to
\* the table
CountIsStored ==
    response'.kind = "parse" =>
        /\ Len(db') = Len(db) + response'.count
        /\ db' = db \o response'.tasks

\* C20: a rejected candidate line of parse_tasks is counted: in every
\* response count + filtered_count is the number of input lines that are not
\* blank and have a non-empty cleaned text, and count is the number of tasks
\* the call stored.
C20_RejectedLinesCounted == []EveryLineCounted /\ [][CountIsStored]_vars

\* a request some lines of which became tasks and some were rejected, one of
\* them by the collaborator
C20_Witness ==
    /\ ParseReturned
    /\ response.count > 0
    /\ response.filtered_count > 0
    /\ \E idx \in Prefiltered : ~get(AiResults[idx], "is_valid", TRUE)

-----------------------------------------------------------------------------
(* The graph builder called again, and the order of its edges.             *)

Generated == ExplicitEdges(db, 1) \o HeuristicEdges(db, 1)

SamePair(e, f) == e.source = f.source /\ e.target = f.target

\* the positions of a sequence of edges that hold the first edge of their pair
FirstOfPair(edges) ==
    {i \in DOMAIN edges : \A j \in 1..(i - 1) : ~SamePair(edges[j], edges[i])}

\* the k-th smallest element of a set of numbers
Nth(S, k) == CHOOSE i \in S : Cardinality({j \in S : j <= i}) = k

\* C18: the edge list build_graph returns is the generated edge sequence
\* with every later occurrence of an already seen (source, target) pair
\* removed and the order kept; an edge of a pair that an explicit rule
\* produced is labelled 'depends'.
C18_FirstOccurrenceKept ==
    GraphReturned =>
        LET explicit == ExplicitEdges(db, 1)
            generated == Generated
            first == FirstOfPair(generated)
        IN  /\ Len(response.edges) = Cardinality(first)
            /\ \A k \in DOMAIN response.edges :
                   response.edges[k] = generated[Nth(first, k)]
            /\ \A k \in DOMAIN response.edges :
                   (\E i \in DOMAIN explicit :
                        SamePair(explicit[i], response.edges[k]))
                   => response.edges[k].label = "depends"

\* a pair was generated twice with different labels, the first of the two
\* edges was returned, and there is an explicit edge as well
C18_Witness ==
    /\ GraphReturned
    /\ ExplicitEdges(db, 1) # <<>>
    /\ \E i, j \in DOMAIN Generated :
           /\ i < j
           /\ SamePair(Generated[i], Generated[j])
           /\ Generated[i].label # Generated[j].label
           /\ \E k \in DOMAIN response.edges : response.edges[k] = Generated[i]

\* C19: build_graph returns a graph for every task list: the empty list
\* gives no nodes and no edges, a single task gives one node, and a task
\* without a category gives a node with the default category, not an error.
C19_NeverFails ==
    response # NoResponse =>
        /\ response.kind = "graph"
        /\ Len(response.nodes) = Len(db)
        /\ db = <<>> => response.edges = <<>>
        /\ \A k \in DOMAIN db :
               response.nodes[k].category =
                   IF db[k].category \in TaskCategory THEN db[k].category
                   ELSE OTHER_CATEGORY


-----------------------------------------------------------------------------
(* The handlers that edit a stored task: the table holds up to MaxLines     *)
(* rows as parse_tasks writes them, and the requests are PATCH              *)
(* /tasks/{task_id}, PATCH /tasks/{task_id}/status and POST                 *)
(* /tasks/reanalyze.                                                        *)

TaskStatus == {"todo", "in_progress", "done"}

\* PATCH /tasks/{task_id}/status
update_task_status(task_id, status_update) ==
    /\ IF \E k \in DOMAIN db : db[k].id = task_id
       THEN \E k \in {i \in DOMAIN db : db[i].id = task_id} :
            \E task \in {[status |-> status_update] @@ db[k]} :
                /\ db' = [db EXCEPT ![k] = task]
                /\ response' = [kind |-> "task", task |-> task]
       ELSE /\ response' = [kind |-> "error", status_code |-> 404]
            /\ UNCHANGED db
    /\ UNCHANGED <<text, result>>

EditRows == { <<LineDeploy, TextDeployApp, DEPLOY, FALSE>>,
              <<LineDeploy, TextSendEmail, EMAIL, TRUE>> }

EditUpdates == TaskUpdates \cup { [status |-> "done"] }

InitEdit ==
    /\ \E n \in 1..MaxLines : \E f \in [1..n -> EditRows] :
         db = [k \in 1..n |-> TaskRow(k, f[k][1], f[k][2], f[k][3], <<>>, f[k][4])]
    /\ response = NoResponse
    /\ text = <<>>
    /\ result = NoResponse

NextEdit ==
    \/ \E task_id \in 1..MaxTaskId : \E task_update \in EditUpdates :
         update_task(task_id, task_update)
    \/ \E task_id \in 1..MaxTaskId : \E status_update \in TaskStatus :
         update_task_status(task_id, status_update)
    \/ \E reply \in Replies(ReanalyzeItems, MaxImprovements) :
         reanalyze_tasks(reply)

SpecEdit == InitEdit /\ [][NextEdit]_vars

\* every row that is in the table before and after a step has the raw_text
\* it had
RawTextKept ==
    \A k \in DOMAIN db : \A j \in DOMAIN db' :
        db'[j].id = db[k].id => db'[j].raw_text = db[k].raw_text

\* C21: update_task, update_task_status and reanalyze_tasks leave the
\* raw_text of every stored task as it was when the task was created: no
\* step of these handlers changes the raw_text of a row that stays in the
\* table.
C21_RawTextImmutable == [][RawTextKept]_vars

\* a row whose clean_text was rewritten by a re-analysis, whose status was
\* set and whose raw_text is the line it was created from
C21_Witness ==
    /\ response.kind = "reanalyze"
    /\ response.improved_count >= 1
    /\ \E k \in DOMAIN db :
         /\ db[k].raw_text = LineDeploy
         /\ db[k].clean_text = TextDeployApp
         /\ db[k].was_improved
         /\ db[k].status = "done"

-----------------------------------------------------------------------------
\* the text survives the six checks listed for the validator: no pure-noise
\* and no non-actionable pattern, the two sizes, the alphabetic density
\* (these four are is_noise), an action verb or an action indicator, and not
\* a bare ticket id
SurvivesSixChecks(task_text) ==
    /\ task_text # <<>>
    /\ ~is_noise(task_text)
    /\ has_action_verb(task_text) \/ has_action_indicator(task_text)
    /\ ~TicketShape(strip(task_text), UpperSet)

\* C22: is_meaningful_task rejects a text on the six listed grounds only:
\* every text that survives the six checks is accepted, also a sentence of
\* several words that ends with a filename.
C22_SixGroundsOnly ==
    (result.kind = "is_meaningful_task" /\ SurvivesSixChecks(text))
        => result.value

-----------------------------------------------------------------------------
(* The validator on texts that hold inflected forms of an action verb: the  *)
(* text is up to MaxValidateWords of the words below.                       *)

InflectedWords == {
    <<"T","h","e">>, <<"d","e","p","l","o","y","m","e","n","t">>, <<"p","i","p","e","l","i","n","e">>, <<"d","e","p","l","o","y">>, <<"r","e","v","i","e","w","e","d">>,
    <<"p","l","e","a","s","e">> }

InitInflected ==
    /\ db = <<>>
    /\ response = NoResponse
    /\ \E n \in 0..MaxValidateWords : \E ws \in [1..n -> InflectedWords] :
           text = JoinWords(ws)
    /\ result = NoResponse

NextInflected == call_is_meaningful_task

SpecInflected == InitInflected /\ [][NextInflected]_vars

\* the words of s: the maximal runs of word characters
WordTokens(s) ==
    { SubSeq(s, a, b) : <<a, b>> \in
        { p \in (1..Len(s)) \X (1..Len(s)) :
            /\ p[1] <= p[2]
            /\ \A i \in p[1]..p[2] : IsWordChar(s[i])
            /\ p[1] = 1 \/ ~IsWordChar(s[p[1] - 1])
            /\ p[2] = Len(s) \/ ~IsWordChar(s[p[2] + 1]) } }

\* an entry of ACTION_VERBS is a word of the lower-cased text
HoldsVerbAsWord(s) == Range(ACTION_VERBS) \cap WordTokens(lower(s)) # {}

\* an entry of ACTION_INDICATORS is a substring of the lower-cased text
HoldsIndicator(s) ==
    \E k \in DOMAIN ACTION_INDICATORS : Contains(lower(s), ACTION_INDICATORS[k])

\* C23: is_meaningful_task returns false for every text that holds no entry
\* of ACTION_VERBS as a whole word and no entry of ACTION_INDICATORS as a
\* substring; a word that only starts with a verb ('deployment') is not an
\* action verb.
C23_NoActionRejected ==
    (result.kind = "is_meaningful_task" /\ result.value)
        => (HoldsVerbAsWord(text) \/ HoldsIndicator(text))

\* a text that is no noise and holds 'deployment' but no verb and no
\* indicator was rejected
C23_Witness ==
    /\ result.kind = "is_meaningful_task"
    /\ ~result.value
    /\ ~is_noise(text)
    /\ Contains(lower(text), <<"d","e","p","l","o","y","m","e","n","t">>)
    /\ ~HoldsVerbAsWord(text)
    /\ ~HoldsIndicator(text)

-----------------------------------------------------------------------------
\* the lower-cased words of at least four characters of a text
LongWords(s) == { w \in WordTokens(lower(s)) : Len(w) >= 4 }

\* T and O share at least two long words that are no stop words
ShareWords(T, O) ==
    Cardinality((LongWords(T.clean_text) \cap LongWords(O.clean_text))
                    \ StopWords) >= 2

\* the text of T holds one of the six keywords
HoldsWaitKeyword(T) ==
    \E kw \in {<<"a","f","t","e","r">>, <<"o","n","c","e">>, <<"w","h","e","n">>, <<"d","e","p","e","n","d","s">>, <<"b","l","o","c","k","e","d">>,
               <<"w","a","i","t","i","n","g">>} : Contains(lower(T.clean_text), kw)

\* T is reached through a generic entry of DEPENDENCY_PATTERNS
ReachedThroughGeneric(T) ==
    /\ T.depends_on = <<>>
    /\ \E p \in DOMAIN DEPENDENCY_PATTERNS :
         /\ DEPENDENCY_PATTERNS[p].category = None
         /\ re_search(DEPENDENCY_PATTERNS[p], lower(T.clean_text))

\* T is matched by 'then ' and by no other generic entry
ThenOnly(T) ==
    /\ T.depends_on = <<>>
    /\ \A p \in DOMAIN DEPENDENCY_PATTERNS :
         (/\ DEPENDENCY_PATTERNS[p].category = None
          /\ re_search(DEPENDENCY_PATTERNS[p], lower(T.clean_text)))
             <=> DEPENDENCY_PATTERNS[p].head = <<"t","h","e","n">>

\* C24: for a task T reached through a generic entry, the lexical-overlap
\* step emits the edge O -> T labelled "related" for another task O exactly
\* when T and O share two long words that are no stop words and T's text
\* holds one of the six keywords; the graph returned has a "related" edge
\* O -> T in no other case, and a task matched by 'then ' only whose text
\* holds none of the keywords has no "related" edge into it.
C24_RelatedEdge ==
    response.kind = "graph" =>
        \A i \in DOMAIN db : \A j \in DOMAIN db :
            LET T == db[i]
                O == db[j]
                related == GraphEdge(str(O.id), str(T.id), "related")
                emitted == Range(_find_keyword_dependencies(
                                     T, db, lower(T.clean_text)))
                expected == ShareWords(T, O) /\ HoldsWaitKeyword(T)
            IN  (i # j /\ ReachedThroughGeneric(T)) =>
                    /\ related \in emitted <=> expected
                    /\ related \in Range(response.edges) => expected
                    /\ expected => \E e \in Range(response.edges) :
                                       SamePair(e, related)
                    /\ (ThenOnly(T) /\ ~HoldsWaitKeyword(T)) =>
                           related \notin Range(response.edges)

\* a graph of two tasks that share two long words: one is matched by
\* 'then ' only and holds no keyword, and gets no edge; the other is reached
\* through a generic entry, holds a keyword, and gets the "related" edge
C24_Witness ==
    /\ response.kind = "graph"
    /\ \E i \in DOMAIN db : \E j \in DOMAIN db :
         /\ i # j
         /\ ThenOnly(db[i]) /\ ~HoldsWaitKeyword(db[i])
         /\ ShareWords(db[i], db[j])
         /\ \A e \in Range(response.edges) : e.target # str(db[i].id)
         /\ ReachedThroughGeneric(db[j]) /\ HoldsWaitKeyword(db[j])
         /\ GraphEdge(str(db[i].id), str(db[j].id), "related")
                \in Range(response.edges)

-----------------------------------------------------------------------------
(* services/task_classifier.py: TaskClassifier.extract_time.  A pattern is  *)
(* modelled by the position its match from position i ends before, as the   *)
(* backtracking of re finds it (a greedy quantifier takes the longest run   *)
(* that lets the rest match); the set is empty when there is no match at i. *)

\* \s* or \s+ from position p: the position after the whole run
SkipSpaces(s, p) == p + RunLength(s, p, Whitespace)

\* (am|pm)? at position p
OptionalAmPm(s, p) ==
    IF MatchAt(s, p, <<"a","m">>) \/ MatchAt(s, p, <<"p","m">>) THEN p + 2 ELSE p

\* \d{1,2} at position i followed by the rest of a pattern, given the ends
\* the rest has after two digits and after one: two digits are tried first
OneOrTwoDigits(s, i, after_two, after_one) ==
    LET n == RunLength(s, i, Digits)
    IN  IF n >= 2 /\ after_two # {} THEN after_two
        ELSE IF n >= 1 THEN after_one
        ELSE {}

\* (w1|w2|...) at position p, for words none of which starts another
OneOf(s, p, words) == { p + Len(w) : w \in { x \in words : MatchAt(s, p, x) } }

\* :\d{2} at position p
IsMinutes(s, p) ==
    /\ p + 2 <= Len(s)
    /\ s[p] = ":" /\ IsDigit(s[p + 1]) /\ IsDigit(s[p + 2])

NumberOfTimePatterns == 7

TimePatternEnd(pattern, s, i) ==
    CASE pattern = 1 ->      \* (\d{1,2}:\d{2}\s*(am|pm)?)
           LET rest(p) == IF IsMinutes(s, p)
                          THEN {OptionalAmPm(s, SkipSpaces(s, p + 3))} ELSE {}
           IN  OneOrTwoDigits(s, i, rest(i + 2), rest(i + 1))
      [] pattern = 2 ->      \* (\d{1,2}\s*(am|pm))
           LET rest(p) == OneOf(s, SkipSpaces(s, p), {<<"a","m">>, <<"p","m">>})
           IN  OneOrTwoDigits(s, i, rest(i + 2), rest(i + 1))
      [] pattern = 3 ->      \* (tomorrow|today|tonight)
           OneOf(s, i, {<<"t","o","m","o","r","r","o","w">>, <<"t","o","d","a","y">>, <<"t","o","n","i","g","h","t">>})
      [] pattern = 4 ->      \* (next\s+(monday|...|sunday|week|month))
           IF MatchAt(s, i, <<"n","e","x","t">>) /\ SkipSpaces(s, i + 4) > i + 4
           THEN OneOf(s, SkipSpaces(s, i + 4),
                      Weekdays \cup {<<"w","e","e","k">>, <<"m","o","n","t","h">>})
           ELSE {}
      [] pattern = 5 ->      \* (at\s+\d{1,2}(:\d{2})?\s*(am|pm)?)
           IF MatchAt(s, i, <<"a","t">>) /\ SkipSpaces(s, i + 2) > i + 2
           THEN LET d == SkipSpaces(s, i + 2)
                    rest(p) == {OptionalAmPm(s, SkipSpaces(s,
                                   IF IsMinutes(s, p) THEN p + 3 ELSE p))}
                IN  OneOrTwoDigits(s, d, rest(d + 2), rest(d + 1))
           ELSE {}
      [] pattern = 6 ->      \* (by\s+(monday|...|sunday))
           IF MatchAt(s, i, <<"b","y">>) /\ SkipSpaces(s, i + 2) > i + 2
           THEN OneOf(s, SkipSpaces(s, i + 2), Weekdays)
           ELSE {}
      [] pattern = 7 ->      \* (in\s+\d+\s+(hours?|minutes?|days?))
           IF MatchAt(s, i, <<"i","n">>) /\ SkipSpaces(s, i + 2) > i + 2
           THEN LET d == SkipSpaces(s, i + 2)
                    g == d + RunLength(s, d, Digits)
                    u == SkipSpaces(s, g)
                IN  IF g > d /\ u > g
                    THEN { IF e <= Len(s) /\ s[e] = "s" THEN e + 1 ELSE e :
                             e \in OneOf(s, u, {<<"h","o","u","r">>, <<"m","i","n","u","t","e">>, <<"d","a","y">>}) }
                    ELSE {}
           ELSE {}

\* the positions where the pattern matches
MatchStarts(pattern, s) ==
    { i \in 1..Len(s) : TimePatternEnd(pattern, s, i) # {} }

MinOf(S) == CHOOSE x \in S : \A y \in S : x <= y

\* re.search(pattern, s).group(0): the match at the leftmost position
group0(pattern, s) ==
    LET i == MinOf(MatchStarts(pattern, s))
    IN  SubSeq(s, i, MinOf(TimePatternEnd(pattern, s, i)) - 1)

\* extract_time with the pattern whose match starts leftmost in the text
extract_time_leftmost(text_in) ==
    LET text_lower == lower(text_in)
        matching == { p \in 1..NumberOfTimePatterns :
                        MatchStarts(p, text_lower) # {} }
        leftmost == { p \in matching : \A q \in matching :
                        MinOf(MatchStarts(p, text_lower))
                            <= MinOf(MatchStarts(q, text_lower)) }
    IN  IF matching = {} THEN <<>>
        ELSE << group0(MinOf(leftmost), text_lower) >>

\* extract_time: <<>> is None, and <<token>> is the token returned
extract_time(text_in) ==
    LET text_lower == lower(text_in)
        matching == { p \in 1..NumberOfTimePatterns :
                        MatchStarts(p, text_lower) # {} }
    IN  IF matching = {} THEN <<>>
        ELSE << group0(MinOf(matching), text_lower) >>

\* TaskClassifier.extract_time as a function of its argument: the text is
\* up to MaxTimeWords of the words below.
MaxTimeWords == 3      \* words of a text that holds a time

TimeWords == {
    <<"T","o","m","o","r","r","o","w">>, <<"a","t">>, <<"1","0",":","3","0">>, <<"5">>, <<"p","m">>, <<"n","e","x","t">>, <<"w","e","e","k">>,
    <<"b","y">>, <<"F","r","i","d","a","y">>, <<"i","n">>, <<"h","o","u","r","s">>, <<"c","a","l","l">> }

call_extract_time ==
    /\ result' = [kind |-> "extract_time", value |-> extract_time(text)]
    /\ UNCHANGED <<db, response, text>>

InitTime ==
    /\ db = <<>>
    /\ response = NoResponse
    /\ \E n \in 0..MaxTimeWords : \E ws \in [1..n -> TimeWords] :
           text = JoinWords(ws)
    /\ result = NoResponse

NextTime == call_extract_time

SpecTime == InitTime /\ [][NextTime]_vars

\* the patterns of extract_time that match somewhere in s
MatchingTimePatterns(s) ==
    { p \in 1..NumberOfTimePatterns : MatchStarts(p, s) # {} }

\* the texts the pattern matches in s, at any position
MatchesOf(pattern, s) ==
    { SubSeq(s, i, MinOf(TimePatternEnd(pattern, s, i)) - 1) :
        i \in MatchStarts(pattern, s) }

\* C25: extract_time returns a match of the earliest pattern of the list
\* that matches anywhere in the lower-cased text, wherever the matches of
\* the later patterns are; the token is a substring of the lower-cased text;
\* and it returns none exactly when no pattern matches.
C25_EarliestPattern ==
    result.kind = "extract_time" =>
        LET s == lower(text)
            matching == MatchingTimePatterns(s)
        IN  /\ result.value = <<>> <=> matching = {}
            /\ result.value # <<>> =>
                   /\ result.value[1] \in MatchesOf(MinOf(matching), s)
                   /\ Contains(s, result.value[1])

\* a token was returned although a later pattern of the list matches
\* further left in the text ('tomorrow at 10:30')
C25_Witness ==
    /\ result.kind = "extract_time"
    /\ result.value # <<>>
    /\ LET s == lower(text)
           matching == MatchingTimePatterns(s)
       IN  \E q \in matching :
               /\ q > MinOf(matching)
               /\ MinOf(MatchStarts(q, s))
                      < MinOf(MatchStarts(MinOf(matching), s))

-----------------------------------------------------------------------------
(* POST /tasks/parse on an empty table, with requests of up to MaxDepLines  *)
(* lines and replies whose items name other items of the reply.             *)

MaxDepLines == 3       \* lines of a parse request with dependencies

DepLines == {LineDeploy, LineOk}

DepItems ==
    { JsonObject([is_valid |-> TRUE, improved_text |-> TextSendEmail,
                  category |-> "email", depends_on_indices |-> indices]) :
        indices \in {<<>>, <<1>>, <<2>>} }

\* POST /tasks/parse when the table is empty
parse_tasks_empty_table(request_text, reply) ==
    /\ db = <<>>
    /\ \E returned \in {parsed(db, request_text, reply)} :
        /\ db' = returned.tasks
        /\ response' = returned
        /\ text' = request_text
        /\ result' = [kind |-> "generate_content", value |-> reply]

NextDeps ==
    \E m \in 0..MaxDepLines : \E ls \in [1..m -> DepLines] :
        \E reply \in Replies(DepItems, m) :
            parse_tasks_empty_table(JoinLines(ls), reply)

SpecDeps == InitTasks /\ [][NextDeps]_vars

\* the task returned for candidate idx, which became a task
TaskOf(idx) ==
    response.tasks[CHOOSE n \in DOMAIN CreatedFrom : CreatedFrom[n] = idx]

\* the indices the collaborator returned for candidate idx: they number the
\* candidates it was sent, from 1
IndicesOf(idx) ==
    Range(get(result.value.items[ItemIndex(idx)].fields,
              "depends_on_indices", <<>>))

\* C26: when the collaborator reports that the j-th candidate it was sent
\* depends on the k-th candidate it was sent (j # k) and both become tasks,
\* the task of candidate j has the id of the task of candidate k in its
\* depends_on, and no id of a task the collaborator did not name, also when
\* lines before them were dropped by the pre-filter.
C26_DependenciesResolve ==
    (ParseReturned /\ WellFormed(result.value)) =>
        LET created == Range(CreatedFrom) \cap
                           {idx \in Prefiltered :
                               ItemIndex(idx) <= Len(result.value.items)}
        IN  \A j \in created :
                /\ \A k \in created \ {j} :
                       ItemIndex(k) \in IndicesOf(j) =>
                           TaskOf(k).id \in Range(TaskOf(j).depends_on)
                /\ Range(TaskOf(j).depends_on) \subseteq
                       {TaskOf(k).id : k \in
                           {c \in created \ {j} : ItemIndex(c) \in IndicesOf(j)}}

-----------------------------------------------------------------------------
(* build_graph on lists of up to MaxTasks tasks that can be linked by each  *)
(* of the three kinds of edge.                                              *)

OrderPool ==
    { <<TextDeployPayment, DEPLOY>>,
      <<TextMessageAfterDeploy, MESSAGE>>,
      <<TextManyPatterns, EMAIL>>,
      <<TextThenOnly, OTHER_CATEGORY>> }

InitOrder ==
    /\ \E n \in 0..MaxTasks : \E f \in [1..n -> OrderPool \X {"none", "other"}] :
           db = TaskList(n, f)
    /\ response = NoResponse
    /\ text = <<>>
    /\ result = NoResponse

NextOrder == get_graph

SpecOrder == InitOrder /\ [][NextOrder]_vars

\* the lists that hold the tasks of the list `tasks' in another order
Reorderings(tasks) ==
    { [k \in DOMAIN tasks |-> tasks[pi[k]]] :
        pi \in { f \in [DOMAIN tasks -> DOMAIN tasks] :
                   \A a, b \in DOMAIN tasks : f[a] = f[b] => a = b } }

UniqueIds(tasks) ==
    \A a, b \in DOMAIN tasks : tasks[a].id = tasks[b].id => a = b

\* C27: for a list of tasks with unique ids the set of (source, target,
\* label) edges of build_graph is the same for every order of the list.
C27_OrderIndependent ==
    (response.kind = "graph" /\ UniqueIds(db)) =>
        \A tasks \in Reorderings(db) :
            Range(build_graph(tasks).edges) = Range(response.edges)

\* a list of two tasks whose edges are returned in another order, and with
\* a heuristic edge among them, when the list is reversed
C27_Witness ==
    /\ response.kind = "graph"
    /\ UniqueIds(db)
    /\ \E e \in Range(response.edges) : e.label # "depends"
    /\ \E tasks \in Reorderings(db) :
           build_graph(tasks).edges # response.edges

-----------------------------------------------------------------------------
(* models/reminder.py, routes/reminders.py and services/scheduler.py.       *)
(* In the specifications of this section db holds the rows of the table     *)
(* reminders, text is the clock (what datetime.utcnow() returns), response  *)
(* is the last HTTP response and result is the run of the job               *)
(* check_reminders: the scheduler runs one instance of the job at a time.   *)
(* The job runs in the scheduler's thread and the routes in other threads,  *)
(* each on a session of its own: the job reads the due rows with a SELECT   *)
(* (lines 13-21) and writes them back with UPDATE ... WHERE id = ? when it  *)
(* commits (line 29), and the requests of the routes can be served in       *)
(* between.  A row has the ghost field fired, the number of times line 24   *)
(* printed it as fired (counted up to MaxFired).                            *)

PENDING == "pending"
SENT == "sent"

MaxReminders == 2      \* rows of the table reminders
MaxTime == 2           \* the last instant of the clock
MaxFired == 2          \* the count of firings is kept up to this number

MaxReminderId == MaxReminders + 1

Reminder(id, remind_at, status) ==
    [id |-> id, remind_at |-> remind_at, status |-> status, fired |-> 0]

Idle(outcome) == [pc |-> "idle", outcome |-> outcome]

\* POST /tasks/{task_id}/reminders; task is what the query of line 16 finds
create_reminder(task, remind_at) ==
    /\ IF task = None
       THEN /\ response' = [kind |-> "error", status_code |-> 404]
            /\ UNCHANGED db
       ELSE /\ Len(db) < MaxReminders
            /\ last_id(db) < MaxReminderId
            /\ \E reminder \in {Reminder(last_id(db) + 1, remind_at, PENDING)} :
                /\ db' = Append(db, reminder)
                /\ response' = [kind |-> "reminder", id |-> reminder.id,
                                status |-> reminder.status]
    /\ UNCHANGED <<text, result>>

\* DELETE /reminders/{reminder_id}
delete_reminder(reminder_id) ==
    /\ IF \E k \in DOMAIN db : db[k].id = reminder_id
       THEN /\ db' = SelectSeq(db, LAMBDA r : r.id # reminder_id)
            /\ response' = [kind |-> "message",
                            message |-> "Reminder deleted successfully"]
       ELSE /\ response' = [kind |-> "error", status_code |-> 404]
            /\ UNCHANGED db
    /\ UNCHANGED <<text, result>>

\* check_reminders lines 11-24: the run reads the clock, selects the due
\* rows and prints each of them as fired
check_reminders_select ==
    /\ result.pc = "idle"
    /\ LET now == text
           due_reminders == SelectSeq(db, LAMBDA r :
                                r.status = PENDING /\ r.remind_at <= now)
       IN  /\ result' = [pc |-> "selected", now |-> now,
                         due_reminders |->
                             [k \in DOMAIN due_reminders |-> due_reminders[k].id]]
           /\ db' = [k \in DOMAIN db |->
                       IF db[k].status = PENDING /\ db[k].remind_at <= now
                       THEN [db[k] EXCEPT !.fired =
                                IF @ < MaxFired THEN @ + 1 ELSE @]
                       ELSE db[k]]
    /\ UNCHANGED <<text, response>>

\* check_reminders lines 25-36 without the assignment of line 25
check_reminders_commit_unmarked ==
    /\ result.pc = "selected"
    /\ result' = Idle(IF result.due_reminders = <<>> THEN "nothing due"
                      ELSE "committed")
    /\ UNCHANGED <<db, text, response>>

\* check_reminders lines 25-36: the status of the selected rows is set and
\* committed.  The UPDATE of a row names it by its id; when no row has the
\* id any more the commit raises, the handler of line 32 rolls back and
\* nothing is written.
check_reminders_commit ==
    /\ result.pc = "selected"
    /\ LET due == Range(result.due_reminders)
           ids == {db[k].id : k \in DOMAIN db}
       IN  IF due = {}
           THEN /\ result' = Idle("nothing due")
                /\ UNCHANGED db
           ELSE IF ~(due \subseteq ids)
           THEN /\ result' = Idle("failed")
                /\ UNCHANGED db
           ELSE /\ result' = Idle("committed")
                /\ db' = [k \in DOMAIN db |->
                            IF db[k].id \in due
                            THEN [db[k] EXCEPT !.status = SENT]
                            ELSE db[k]]
    /\ UNCHANGED <<text, response>>

\* time passes
tick ==
    /\ text < MaxTime
    /\ text' = text + 1
    /\ UNCHANGED <<db, response, result>>

InitReminders ==
    /\ db = <<>>
    /\ response = NoResponse
    /\ text = 0
    /\ result = Idle("none")

NextReminders ==
    \/ \E task \in {None, "task"} : \E remind_at \in 0..MaxTime :
         create_reminder(task, remind_at)
    \/ \E reminder_id \in 1..MaxReminderId : delete_reminder(reminder_id)
    \/ check_reminders_select
    \/ check_reminders_commit
    \/ tick

SpecReminders == InitReminders /\ [][NextReminders]_vars

\* a step changes the status of a row only from pending to sent, only when
\* the job commits, and only when the row is due at the time the run read
StatusChangesOnlyWhenDue ==
    \A i \in DOMAIN db : \A j \in DOMAIN db' :
        (db'[j].id = db[i].id /\ db'[j].status # db[i].status) =>
            /\ db[i].status = PENDING /\ db'[j].status = SENT
            /\ result.pc = "selected" /\ result'.pc = "idle"
            /\ db[i].remind_at <= result.now

\* a run selects pending rows only
SelectsPendingOnly ==
    (result.pc = "idle" /\ result'.pc = "selected") =>
        \A k \in DOMAIN db :
            db[k].id \in Range(result'.due_reminders) => db[k].status = PENDING

\* a run that fails changes no status
FailedRunChangesNothing ==
    (result.pc = "selected" /\ result'.pc = "idle"
        /\ result'.outcome = "failed") => db' = db

FiredAtMostOnce == \A k \in DOMAIN db : db[k].fired <= 1

\* C28: whatever the order of the steps of create_reminder, delete_reminder
\* and the runs of check_reminders, the status of a reminder changes only
\* from pending to sent, only in check_reminders and only when its remind_at
\* is not later than the time the run read; a sent reminder is not selected
\* again and every reminder is fired at most once; a run that fails changes
\* no status.
C28_StatusOnlyPendingToSent ==
    /\ [][StatusChangesOnlyWhenDue /\ SelectsPendingOnly
              /\ FailedRunChangesNothing]_vars
    /\ []FiredAtMostOnce

-----------------------------------------------------------------------------
\* The scheduler started by start_scheduler runs check_reminders every 30
\* seconds for as long as the program runs: a run that can start does start,
\* and a run that has selected its rows goes on to its commit.
SpecRemindersFair ==
    /\ SpecReminders
    /\ WF_vars(check_reminders_select)
    /\ WF_vars(check_reminders_commit)

\* the reminder with this id is pending and due now
IsDue(id) ==
    \E k \in DOMAIN db :
        db[k].id = id /\ db[k].status = PENDING /\ db[k].remind_at <= text

\* the reminder with this id is sent, or deleted
IsSentOrDeleted(id) == \A k \in DOMAIN db : db[k].id = id => db[k].status = SENT

NoRunFails == result.pc = "idle" => result.outcome # "failed"

\* C29: when the scheduler keeps running check_reminders and no run fails,
\* every reminder that is pending and due is eventually marked as sent,
\* unless it is deleted.
C29_DueEventuallySent ==
    []NoRunFails =>
        \A id \in 1..MaxReminderId : IsDue(id) ~> IsSentOrDeleted(id)

\* a run has committed and a reminder that was due is marked as sent
C29_Witness ==
    /\ result.pc = "idle" /\ result.outcome = "committed"
    /\ \E k \in DOMAIN db : db[k].status = SENT /\ db[k].fired = 1

-----------------------------------------------------------------------------
\* routes/teams.py: the OAuth state store and its two handlers.  Under the
\* specification below the variables hold:
\*   db        the dictionary _oauth_states, as the set of its keys
\*   result    the states of the requests of exchange_token that wait for
\*             the reply of the token endpoint (the await of client.post)
\*   response  the last HTTP response
\*   text      is_configured (fixed when teams_service is constructed) and
\*             the history of the run: the states get_auth_url has returned
\*             (issued), the states exchange_token has accepted (used) and
\*             the state of the last request of exchange_token (request)
MaxStates == 3

StateValues == 1..MaxStates

\* a request may carry any state, also one no call ever returns
RequestStates == 0..MaxStates

\* secrets.token_urlsafe(32) encodes 32 random bytes: a value that no
\* earlier call has returned
token_urlsafe == StateValues \ text.issued

InvalidState == [status |-> 400, detail |-> "Invalid state parameter"]

NotConfigured == [status |-> 503, detail |-> "not configured"]

get_auth_url ==
    /\ UNCHANGED result
    /\ IF ~text.is_configured
       THEN /\ response' = NotConfigured
            /\ UNCHANGED <<db, text>>
       ELSE \E state \in token_urlsafe :
            /\ db' = db \cup {state}
            /\ text' = [text EXCEPT !.issued = @ \cup {state}]
            /\ response' = [status |-> 200, detail |-> "auth url",
                            state |-> state]

\* exchange_token with the line "del _oauth_states[request.state]" left out
exchange_token_state_kept(state) ==
    IF state \notin db
    THEN /\ response' = InvalidState
         /\ text' = [text EXCEPT !.request = state]
         /\ UNCHANGED <<db, result>>
    ELSE /\ db' = db
         /\ text' = [text EXCEPT !.request = state, !.used = @ \cup {state}]
         /\ IF ~text.is_configured
            THEN response' = NotConfigured /\ UNCHANGED result
            ELSE result' = result \cup {state} /\ UNCHANGED response

\* exchange_token up to the await of client.post: no other request is served
\* between the test of line 217 and the del of line 223
exchange_token(state) ==
    IF state \notin db
    THEN /\ response' = InvalidState
         /\ text' = [text EXCEPT !.request = state]
         /\ UNCHANGED <<db, result>>
    ELSE /\ db' = db \ {state}
         /\ text' = [text EXCEPT !.request = state, !.used = @ \cup {state}]
         /\ IF ~text.is_configured
            THEN response' = NotConfigured /\ UNCHANGED result
            ELSE result' = result \cup {state} /\ UNCHANGED response

\* exchange_token from the reply of the token endpoint on
exchange_token_reply(state, status_code) ==
    /\ state \in result
    /\ result' = result \ {state}
    /\ response' = IF status_code # 200
                   THEN [status |-> 400, detail |-> "Failed to exchange token",
                         state |-> state]
                   ELSE [status |-> 200, detail |-> "token", state |-> state]
    /\ UNCHANGED <<db, text>>

InitOAuth ==
    /\ db = {}
    /\ result = {}
    /\ response = NoResponse
    /\ text \in [is_configured : BOOLEAN, issued : {{}}, used : {{}},
                 request : {0}]

NextOAuth ==
    \/ get_auth_url
    \/ \E state \in RequestStates : exchange_token(state)
    \/ \E state \in RequestStates, status_code \in {200, 400} :
           exchange_token_reply(state, status_code)

SpecOAuth == InitOAuth /\ [][NextOAuth]_vars

\* a request of exchange_token goes on to contact the token endpoint
Proceeds(state) == state \notin result /\ state \in result'

\* a request of exchange_token with this state is served in this step
Requested(state) ==
    text' # text /\ text'.request = state /\ text'.issued = text.issued

\* a request goes on only with a state that was issued and not used before,
\* and the state is out of the store when the token endpoint is contacted
ProceedsOnlyOnce ==
    \A state \in RequestStates :
        Proceeds(state) =>
            /\ state \in text.issued /\ state \notin text.used
            /\ state \notin db'

\* a request with a used or a never issued state gets 400 and changes nothing
RejectedUnchanged ==
    \A state \in RequestStates :
        (Requested(state) /\ (state \in text.used \/ state \notin text.issued)) =>
            /\ response' = InvalidState
            /\ db' = db /\ result' = result

\* the reply of the token endpoint, failed or not, puts no state back
ReplyKeepsConsumed == result' # result /\ result' \subseteq result => db' = db

UsedStaysConsumed == text.used \cap db = {}

\* C30: a state of the OAuth flow is used once: exchange_token goes on only
\* for a state that get_auth_url has issued and that was not used before, it
\* removes the state before it contacts the token endpoint, so that the state
\* stays consumed also when the exchange fails, and a request with a used or
\* a never issued state is answered with status 400 and leaves the store as
\* it was.
C30_StateSingleUse ==
    /\ [][ProceedsOnlyOnce /\ RejectedUnchanged /\ ReplyKeepsConsumed]_vars
    /\ []UsedStaysConsumed

\* a state was accepted and its exchange has ended, the same state was sent
\* again and was answered with 400, and the store holds another state only
C30_Witness ==
    /\ response = InvalidState
    /\ text.request \in text.used
    /\ text.request \notin result
    /\ text.request \notin db
    /\ db # {}

=========================================================================
